---- MODULE Spec2Model ----
(***************************************************************************)
(* Model of the lilnouns-agent stream connection manager                   *)
(* (FarcasterStreamWebsocket, src/services/farcaster-stream.ts) and of the *)
(* way it and the scheduled sweep start conversation pipeline runs.        *)
(*                                                                         *)
(* Every JavaScript callback that runs without yielding to the event loop  *)
(* is one action: fetch(), alarm(), a reconnect timeout, and each socket    *)
(* listener (open, message, error, close).  handleRefresh, which awaits     *)
(* network calls, is split at its awaits.                                  *)
(***************************************************************************)
EXTENDS Integers, Sequences, FiniteSets, TLC

\* ---- bounds of the model ------------------------------------------------
\* Budget of outstanding connection work: sockets that are not yet closed,
\* pending reconnect timeouts and undelivered close events, taken together.
MaxPending == 3
\* Outbound frames recorded per socket.
MaxFrames == 3
\* Conversation ids 1..MaxConvs; odd ids are one-to-one, even ids are groups.
MaxConvs == 2
\* handleRefresh invocations that may be in flight at once.
MaxHandlers == 2

\* ---- program constants --------------------------------------------------
initialBackoff == 1000
maxBackoff == 30000
heartbeatInterval == 30000

Sockets == 1..MaxPending
Convs == 1..MaxConvs

VARIABLES
  token,      \* env.FARCASTER_AUTH_TOKEN is configured
  features,   \* config.agent.features: [group, oneToOne]
  ws,         \* this.ws: 0 for null, else the socket it references
  sock,       \* readyState of every socket object still of interest
  sent,       \* outbound frames sent on each socket, in order
  backoff,    \* this.backoff
  timers,     \* number of pending setTimeout reconnect callbacks
  lastDelay,  \* delay used by the latest scheduleReconnect() since the last open (0: none)
  evq,        \* socket whose close event follows its error event in the running task (0: none)
  alarm,      \* delay of the pending storage alarm (0: no alarm pending)
  ctor,       \* the constructor's getAlarm() promise: "pending" or "done"
  refresh,    \* in-flight handleRefresh invocations per conversation and stage,
              \* the pipeline variant of those that are running, and whether
              \* a pipeline run of one of them has thrown
  sweep,      \* the scheduled sweep (handleUnreadConversations)
  frame,      \* how the latest handleMessage() call that did not reach
              \* handleRefresh settled ("none": no such call yet)
  now,        \* the clock (Date.now(), server timestamps)
  msgs,       \* the recent text messages of one conversation, oldest first,
              \* as the messaging network holds them
  lastFetch,  \* the watermark in AGENT_CACHE (0: none stored, the fallback date)
  conv,       \* that conversation's isGroup flag and the send toggle of its variant
  job,        \* the pipeline run on that conversation, with a record of what
              \* it has called so far
  split,      \* the call of splitMessage: its arguments, its locals, its chunks
  reply,      \* the reply phase of one pipeline run: tool round, final round,
              \* the chunks sent, and the read mark that follows in a sweep
  runs,       \* the runs that use the watermark, each with what it has read
              \* and written so far
  attempt     \* one attempt of markLilNounsConversationAsRead: its socket,
              \* its flags and timers, the frames sent, how the race settled

connVars == <<ws, sock, sent, backoff, timers, lastDelay, evq>>
vars == <<token, features, ws, sock, sent, backoff, timers, lastDelay, evq,
          alarm, ctor, refresh, sweep, frame, now, msgs, lastFetch, conv, job,
          split, reply, runs, attempt>>
managerVars == <<token, features, ws, sock, sent, backoff, timers, lastDelay, evq,
                 alarm, ctor, refresh, sweep, frame>>
pipeVars == <<now, msgs, lastFetch, conv, job>>
roundVars == <<split, reply, runs, attempt>>

Min(a, b) == IF a < b THEN a ELSE b

\* ---- derived views of the connection -------------------------------------
Live(st) == st \in {"CONNECTING", "OPEN", "CLOSING"}

\* this.ws && this.ws.readyState === WebSocket.OPEN
IsOpenNoReadyState == ws # 0
IsOpen == ws # 0 /\ sock[ws] = "OPEN"

\* The connection state of the manager, read off this.ws.
ConnState ==
  IF ws = 0 \/ sock[ws] \in {"CLOSING", "CLOSED"} THEN "DISCONNECTED"
  ELSE IF sock[ws] = "CONNECTING" THEN "CONNECTING"
  ELSE "OPEN"

\* Outstanding connection work (see MaxPending).
Pending ==
  timers + Cardinality({s \in Sockets : Live(sock[s])}) + (IF evq = 0 THEN 0 ELSE 1)

\* ---- scheduleReconnect ---------------------------------------------------
\* this.backoff = Math.min(this.backoff * 2, this.maxBackoff)
NextBackoffNoCap(b) == b * 2
NextBackoff(b) == Min(b * 2, maxBackoff)

\* scheduleReconnect(): one more timeout with delay this.backoff, then the
\* backoff is doubled up to the ceiling.
ScheduleReconnect(t0) ==
  /\ timers' = t0 + 1
  /\ lastDelay' = backoff
  /\ backoff' = NextBackoff(backoff)

\* ---- connect -------------------------------------------------------------
\* WebSocket.close(): a connecting or open socket starts closing.
AfterCloseNone(st) == st
AfterClose(st) == IF st \in {"CONNECTING", "OPEN"} THEN "CLOSING" ELSE st

\* The backoff after a connect() that created its socket: untouched.
BackoffAfterConnectReset(b) == initialBackoff
BackoffAfterConnect(b) == b

\* if (!token): connect() logs and returns.
NoTokenNever == FALSE
NoToken == ~token

\* connect(), called with t0 reconnect timeouts pending; newThrows: the
\* WebSocket constructor throws.
Connect(t0, newThrows) ==
  IF NoToken
  THEN /\ timers' = t0
       /\ UNCHANGED <<ws, sock, sent, backoff, lastDelay>>
  ELSE LET closed == IF ws # 0 THEN [sock EXCEPT ![ws] = AfterClose(@)] ELSE sock
           \* the object this.ws referenced is dropped once it is closed
           dropped == [s \in Sockets |->
                         IF s = ws /\ closed[s] = "CLOSED" THEN "FREE" ELSE closed[s]]
           id == CHOOSE s \in Sockets :
                   /\ dropped[s] = "FREE"
                   /\ \A r \in Sockets : dropped[r] = "FREE" => s <= r
       IN IF newThrows
          THEN /\ sock' = closed
               /\ UNCHANGED <<ws, sent>>
               /\ ScheduleReconnect(t0)
          ELSE /\ sock' = [dropped EXCEPT ![id] = "CONNECTING"]
               /\ sent' = [s \in Sockets |->
                             IF dropped[s] = "FREE" THEN <<>> ELSE sent[s]]
               /\ ws' = id
               /\ timers' = t0
               /\ backoff' = BackoffAfterConnect(backoff)
               /\ UNCHANGED lastDelay

\* ---- entry points --------------------------------------------------------
\* fetch(): the HTTP entry point awaits connect().
Fetch ==
  /\ evq = 0
  /\ Pending < MaxPending
  /\ \E newThrows \in BOOLEAN : Connect(timers, newThrows)
  /\ UNCHANGED <<token, features, frame, evq, alarm, ctor, refresh, sweep>>
  /\ UNCHANGED pipeVars
  /\ UNCHANGED roundVars

\* The setTimeout callback of scheduleReconnect() calls connect().
ReconnectTimerWhenIdle ==
  /\ \A c \in 1..MaxConvs : refresh[c].fetch + refresh[c].run + refresh[c].store = 0
  /\ evq = 0
  /\ timers > 0
  /\ \E newThrows \in BOOLEAN : Connect(timers - 1, newThrows)
  /\ UNCHANGED <<token, features, frame, evq, alarm, ctor, refresh, sweep>>
  /\ UNCHANGED pipeVars
  /\ UNCHANGED roundVars
ReconnectTimer ==
  /\ evq = 0
  /\ timers > 0
  /\ \E newThrows \in BOOLEAN : Connect(timers - 1, newThrows)
  /\ UNCHANGED <<token, features, frame, evq, alarm, ctor, refresh, sweep>>
  /\ UNCHANGED pipeVars
  /\ UNCHANGED roundVars

\* The constructor's getAlarm().then(...).catch(...): sets the first alarm
\* when storage holds none; a rejected getAlarm() is logged only.
CtorAlarm ==
  /\ ctor = "pending"
  /\ ctor' = "done"
  /\ \E rejected \in BOOLEAN :
       alarm' = IF ~rejected /\ alarm = 0 THEN heartbeatInterval ELSE alarm
  /\ UNCHANGED <<token, features, frame, refresh, sweep>>
  /\ UNCHANGED pipeVars
  /\ UNCHANGED roundVars
  /\ UNCHANGED connVars

\* The pending alarm after the catch branch of alarm(); fired: the alarm
\* that started this run, which the platform has consumed.
AlarmAfterThrowNone(fired) == 0
AlarmAfterThrow(fired) == heartbeatInterval

\* alarm(): heartbeat on an open socket, connect() otherwise, then the next
\* alarm; sendThrows: ws.send throws.
Alarm ==
  /\ evq = 0
  /\ alarm # 0
  /\ IF IsOpen
     THEN /\ Len(sent[ws]) < MaxFrames
          /\ \E sendThrows \in BOOLEAN :
               /\ sent' = IF sendThrows THEN sent
                          ELSE [sent EXCEPT ![ws] = Append(@, "heartbeat")]
               /\ alarm' = IF sendThrows THEN AlarmAfterThrow(alarm) ELSE heartbeatInterval
          /\ UNCHANGED <<ws, sock, backoff, timers, lastDelay>>
     ELSE /\ Pending < MaxPending
          /\ \E newThrows \in BOOLEAN : Connect(timers, newThrows)
          /\ alarm' = heartbeatInterval
  /\ UNCHANGED <<token, features, frame, evq, ctor, refresh, sweep>>
  /\ UNCHANGED pipeVars
  /\ UNCHANGED roundVars

\* ---- socket listeners ----------------------------------------------------
\* The frames of this.ws after the 'open' listener's send.
FramesAfterOpenNoAuth(frames) == frames
FramesAfterOpen(frames) == Append(frames, "authenticate")

\* 'open': the socket is open; authenticate on this.ws and reset the backoff.
SocketOpen(s) ==
  /\ evq = 0
  /\ sock[s] = "CONNECTING"
  /\ sock' = [sock EXCEPT ![s] = "OPEN"]
  /\ sent' = IF ws # 0 THEN [sent EXCEPT ![ws] = FramesAfterOpen(@)] ELSE sent
  /\ backoff' = initialBackoff
  /\ lastDelay' = 0
  /\ UNCHANGED <<token, features, frame, ws, timers, evq, alarm, ctor, refresh, sweep>>
  /\ UNCHANGED pipeVars
  /\ UNCHANGED roundVars

\* A socket that is closed and is no longer this.ws is garbage.
Closed(s) == IF s = ws THEN "CLOSED" ELSE "FREE"

\* The connection of socket s fails: its 'error' listener runs, and its
\* 'close' listener follows in the same task (SocketCloseAfterError).
SocketError(s) ==
  /\ evq = 0
  /\ Live(sock[s])
  /\ Pending < MaxPending
  /\ sock' = [sock EXCEPT ![s] = Closed(s)]
  /\ evq' = s
  /\ ScheduleReconnect(timers)
  /\ UNCHANGED <<token, features, frame, ws, sent, alarm, ctor, refresh, sweep>>
  /\ UNCHANGED pipeVars
  /\ UNCHANGED roundVars

SocketCloseAfterError ==
  /\ evq # 0
  /\ evq' = 0
  /\ ScheduleReconnect(timers)
  /\ UNCHANGED <<token, features, frame, ws, sock, sent, alarm, ctor, refresh, sweep>>
  /\ UNCHANGED pipeVars
  /\ UNCHANGED roundVars

\* Socket s closes without an error (the peer closes it, or the closing
\* handshake started by close() completes): its 'close' listener runs.
SocketClose(s) ==
  /\ evq = 0
  /\ sock[s] \in {"OPEN", "CLOSING"}
  /\ sock' = [sock EXCEPT ![s] = Closed(s)]
  /\ ScheduleReconnect(timers)
  /\ UNCHANGED <<token, features, frame, ws, sent, evq, alarm, ctor, refresh, sweep>>
  /\ UNCHANGED pipeVars
  /\ UNCHANGED roundVars

\* ---- refresh events and pipeline runs ------------------------------------
IsGroup(c) == c % 2 = 0

\* The feature toggle handleRefresh and the sweep consult for conversation c.
RouteEnabled(c) == IF IsGroup(c) THEN features.group ELSE features.oneToOne

RECURSIVE SumOver(_, _)
SumOver(S, f) ==
  IF S = {} THEN 0
  ELSE LET x == CHOOSE y \in S : TRUE IN f[x] + SumOver(S \ {x}, f)

HandlerCount ==
  SumOver(Convs, [c \in Convs |-> refresh[c].fetch + refresh[c].run + refresh[c].store])

\* handleRefresh up to its first await: a payload without message or
\* messageId is logged and dropped, any other starts the conversation fetch.
AfterRefreshEventUnlessAnyRun(r, c, hasMessageId) ==
  IF hasMessageId /\ (\A d \in Convs : r[d].run = 0)
  THEN [r EXCEPT ![c].fetch = @ + 1] ELSE r
AfterRefreshEventUnlessThrew(r, c, hasMessageId) ==
  IF hasMessageId /\ ~r[c].threw THEN [r EXCEPT ![c].fetch = @ + 1] ELSE r
AfterRefreshEvent(r, c, hasMessageId) ==
  IF hasMessageId THEN [r EXCEPT ![c].fetch = @ + 1] ELSE r

\* 'message' listener, for a refresh-direct-cast-conversation frame that
\* carries a payload for conversation c.
RefreshEvent(c) ==
  /\ evq = 0
  /\ IsOpen
  /\ HandlerCount < MaxHandlers
  /\ \E hasMessageId \in BOOLEAN :
       refresh' = AfterRefreshEvent(refresh, c, hasMessageId)
  /\ UNCHANGED <<token, features, frame, alarm, ctor, sweep>>
  /\ UNCHANGED pipeVars
  /\ UNCHANGED roundVars
  /\ UNCHANGED connVars

\* The pipeline variant handleRefresh invokes for a fetched conversation:
\* processGroupConversation for a group when handleGroupConversations is on,
\* processOneToOneConversation for any other conversation when
\* handleOneToOneConversations is on, none when the toggle is off.
VariantIgnoresToggle(isGroup, f) == IF isGroup THEN "group" ELSE "oneToOne"
Variant(isGroup, f) ==
  IF isGroup
  THEN (IF f.group THEN "group" ELSE "none")
  ELSE (IF f.oneToOne THEN "oneToOne" ELSE "none")

\* The variant recorded for the runs of a conversation once one of them ends.
ViaAfterEnd(rc) == IF rc.run = 1 THEN "none" ELSE rc.via

\* handleRefresh after fetchLilNounsUnreadConversation settles: no
\* conversation (or a throw) ends the handler; a conversation whose toggle is
\* on starts its pipeline variant; one whose toggle is off goes on to store.
AfterFetched(r, c, outcome) ==
  IF outcome # "found" THEN [r EXCEPT ![c].fetch = @ - 1]
  ELSE LET v == Variant(IsGroup(c), features)
       IN IF v # "none"
          THEN [r EXCEPT ![c].fetch = @ - 1, ![c].run = @ + 1, ![c].via = v]
          ELSE [r EXCEPT ![c].fetch = @ - 1, ![c].store = @ + 1]

RefreshFetched(c) ==
  /\ evq = 0
  /\ refresh[c].fetch > 0
  /\ \E outcome \in {"found", "none", "throws"} :
       refresh' = AfterFetched(refresh, c, outcome)
  /\ UNCHANGED <<token, features, frame, alarm, ctor, sweep>>
  /\ UNCHANGED pipeVars
  /\ UNCHANGED roundVars
  /\ UNCHANGED connVars

\* handleRefresh after its pipeline run settles: a run that returns goes on
\* to store, a run that throws ends the handler (catch, rethrow).
AfterPipelineLeak(r, c, throws) ==
  IF throws THEN [r EXCEPT ![c].threw = TRUE]
  ELSE [r EXCEPT ![c].run = @ - 1, ![c].via = ViaAfterEnd(r[c]), ![c].store = @ + 1]
AfterPipeline(r, c, throws) ==
  IF throws
  THEN [r EXCEPT ![c].run = @ - 1, ![c].via = ViaAfterEnd(r[c]), ![c].threw = TRUE]
  ELSE [r EXCEPT ![c].run = @ - 1, ![c].via = ViaAfterEnd(r[c]), ![c].store = @ + 1]

PipelineEnd(c) ==
  /\ evq = 0
  /\ refresh[c].run > 0
  /\ \E throws \in BOOLEAN : refresh' = AfterPipeline(refresh, c, throws)
  /\ UNCHANGED <<token, features, frame, alarm, ctor, sweep>>
  /\ UNCHANGED pipeVars
  /\ UNCHANGED roundVars
  /\ UNCHANGED connVars

\* handleRefresh after its storage writes.
RefreshStored(c) ==
  /\ evq = 0
  /\ refresh[c].store > 0
  /\ refresh' = [refresh EXCEPT ![c].store = @ - 1]
  /\ UNCHANGED <<token, features, frame, alarm, ctor, sweep>>
  /\ UNCHANGED pipeVars
  /\ UNCHANGED roundVars
  /\ UNCHANGED connVars

\* ---- the scheduled sweep -------------------------------------------------
\* ---- frames that start no handleRefresh -----------------------------------
\* Inbound frames other than a refresh-direct-cast-conversation frame that
\* carries a payload: not a string, not JSON, JSON without messageType,
\* 'unseen' without data / with data that is not JSON / with a JSON payload,
\* a refresh frame without payload, a server heartbeat, and types the switch
\* does not list.
FrameKinds ==
  {"non-string", "not-json", "no-messageType",
   "unseen-no-data", "unseen-bad-data", "unseen",
   "refresh-no-payload", "heartbeat",
   "authenticate", "direct-cast-read", "unknown"}

\* The way control leaves the body of handleMessage for a frame of kind k:
\* by a return statement, by a throw inside the switch, or by falling out of
\* the switch.
HandleMessagePath(k) ==
  IF k \in {"non-string", "not-json", "no-messageType",
            "unseen-no-data", "refresh-no-payload"} THEN "return"
  ELSE IF k = "unseen-bad-data" THEN "throw"
  ELSE "break"

\* How the promise of handleMessage settles: the try/catch around the switch
\* logs a throw and swallows it.
HandleMessageSettlesNoCatch(path) == IF path = "throw" THEN "rejected" ELSE path
HandleMessageSettles(path) == IF path = "throw" THEN "caught" ELSE path

\* 'message' listener, for a frame of one of the kinds above.
SocketMessage ==
  /\ evq = 0
  /\ IsOpen
  /\ \E k \in FrameKinds : frame' = HandleMessageSettles(HandleMessagePath(k))
  /\ UNCHANGED <<token, features, alarm, ctor, refresh, sweep>>
  /\ UNCHANGED connVars
  /\ UNCHANGED pipeVars
  /\ UNCHANGED roundVars

RECURSIVE Ascending(_)
Ascending(S) ==
  IF S = {} THEN <<>>
  ELSE LET m == CHOOSE x \in S : \A y \in S : x <= y IN <<m>> \o Ascending(S \ {m})

\* handleUnreadConversations: groups first, then one-to-one chats, each kind
\* only when its toggle is on.
SweepOrder(unread) ==
  (IF features.group THEN Ascending({c \in unread : IsGroup(c)}) ELSE <<>>)
  \o (IF features.oneToOne THEN Ascending({c \in unread : ~IsGroup(c)}) ELSE <<>>)

SweepStart ==
  /\ sweep.pc = "idle"
  /\ \E unread \in SUBSET Convs :
       LET todo == SweepOrder(unread)
       IN sweep' = [pc |-> IF todo = <<>> THEN "save" ELSE "run", todo |-> todo]
  /\ UNCHANGED <<token, features, frame, alarm, ctor, refresh>>
  /\ UNCHANGED pipeVars
  /\ UNCHANGED roundVars
  /\ UNCHANGED connVars

\* The awaited pipeline run of the conversation at the head of the list
\* settles: a throw ends the sweep, a return goes on to mark it as read.
SweepRunEnd ==
  /\ sweep.pc = "run"
  /\ \E throws \in BOOLEAN :
       sweep' = IF throws THEN [pc |-> "idle", todo |-> <<>>]
                ELSE [sweep EXCEPT !.pc = "mark"]
  /\ UNCHANGED <<token, features, frame, alarm, ctor, refresh>>
  /\ UNCHANGED pipeVars
  /\ UNCHANGED roundVars
  /\ UNCHANGED connVars

\* markLilNounsConversationAsRead settles; the loop takes the next one.
SweepMarked ==
  /\ sweep.pc = "mark"
  /\ sweep' = [pc |-> IF Tail(sweep.todo) = <<>> THEN "save" ELSE "run",
               todo |-> Tail(sweep.todo)]
  /\ UNCHANGED <<token, features, frame, alarm, ctor, refresh>>
  /\ UNCHANGED pipeVars
  /\ UNCHANGED roundVars
  /\ UNCHANGED connVars

\* setLastFetchTime ends the sweep.
SweepSave ==
  /\ sweep.pc = "save"
  /\ sweep' = [pc |-> "idle", todo |-> <<>>]
  /\ UNCHANGED <<token, features, frame, alarm, ctor, refresh>>
  /\ UNCHANGED pipeVars
  /\ UNCHANGED roundVars
  /\ UNCHANGED connVars

\* Pipeline runs in flight for conversation c.
SweepRuns(c) == sweep.pc = "run" /\ Head(sweep.todo) = c
Runs(c) == refresh[c].run + (IF SweepRuns(c) THEN 1 ELSE 0)

\* ---- initial state -------------------------------------------------------
\* ---- conversation pipeline -------------------------------------------------
\* One conversation and one pipeline run on it at a time: the run that
\* handleRefresh awaits for a refresh event, or the run of a sweep.
\* Overlapping runs are the subject of the handler counts above.

\* Messages the network returns as the recent messages of a conversation.
MaxMsgs == 3
\* Clock values.
MaxTime == 3
\* Participants other than the agent, by fid; a one-to-one conversation has
\* participant 1 only.
MaxUsers == 2

\* config.agent.fid; the other participants have fids 1..MaxUsers.
AgentFid == 20146

Users == 1..MaxUsers
Participants == IF conv.isGroup THEN Users ELSE {1}

\* A text message: server timestamp, sender (the agent's fid or a user's),
\* whether it mentions the agent or replies to one of its messages, and, for
\* a message of the agent, the user it was sent to.
UserMessage(u, mention) == [ts |-> now, from |-> u, mention |-> mention, to |-> 0]
AgentMessage(u) == [ts |-> now, from |-> AgentFid, mention |-> FALSE, to |-> u]

\* The recent messages once m is posted: the window keeps the latest MaxMsgs.
Posted(m) ==
  LET all == Append(msgs, m)
  IN IF Len(all) > MaxMsgs THEN Tail(all) ELSE all

\* A participant posts a message.  Posts are taken between runs: a run reads
\* the conversation once (FetchMessages) and works on that list, so a post
\* that arrives during a run is to the run a post that arrives after it.
NewMessage ==
  /\ job.pc = "idle"
  /\ \E u \in Participants, mention \in BOOLEAN :
       /\ mention => conv.isGroup
       /\ msgs' = Posted(UserMessage(u, mention))
  /\ UNCHANGED <<now, lastFetch, conv, job>>
  /\ UNCHANGED managerVars
  /\ UNCHANGED roundVars

\* Time passes.
Tick ==
  /\ now < MaxTime
  /\ now' = now + 1
  /\ UNCHANGED <<msgs, lastFetch, conv, job>>
  /\ UNCHANGED managerVars
  /\ UNCHANGED roundVars

\* Number(m.serverTimestamp ?? 0n) > lastFetchTime
IsNewOrSame(m, lastFetchTime) == m.ts >= lastFetchTime
IsNew(m, lastFetchTime) == m.ts > lastFetchTime

JobIdle ==
  [pc |-> "idle", trigger |-> "none", lastFetchTime |-> 0, messages |-> <<>>,
   todo |-> <<>>, inferred |-> FALSE, replied |-> FALSE,
   processed |-> {}, selected |-> {}]

\* processOneToOneConversation / processGroupConversation is called and
\* reads the watermark (getLastFetchTime).
StartRun ==
  /\ job.pc = "idle"
  /\ \E trigger \in {"refresh", "sweep"} :
       job' = [JobIdle EXCEPT !.pc = "fetch", !.trigger = trigger,
                              !.lastFetchTime = lastFetch]
  /\ UNCHANGED <<now, msgs, lastFetch, conv>>
  /\ UNCHANGED managerVars
  /\ UNCHANGED roundVars

\* The self-message guard of processOneToOneConversation:
\* last(messages)?.senderFid === config.agent.fid
LastIsAgent(messages) ==
  messages # <<>> /\ messages[Len(messages)].from = AgentFid

\* The senders processGroupConversation iterates over: the keys of the
\* messages grouped by senderFid, the agent's own left out, in key order.
SenderGroups(messages) ==
  Ascending({messages[i].from :
               i \in {j \in 1..Len(messages) : messages[j].from # AgentFid}})

\* Where the run goes once it holds the messages.
AfterMessages(messages) ==
  IF conv.isGroup
  THEN LET todo == SenderGroups(messages)
       IN [job EXCEPT !.messages = messages, !.todo = todo,
                      !.pc = IF todo = <<>> THEN "done" ELSE "sender"]
  ELSE [job EXCEPT !.messages = messages,
                   !.pc = IF LastIsAgent(messages) THEN "done" ELSE "infer"]

\* fetchLilNounsConversationMessages settles: the text messages oldest first,
\* or none when the request failed.
FetchMessages ==
  /\ job.pc = "fetch"
  /\ \E error \in BOOLEAN : job' = AfterMessages(IF error THEN <<>> ELSE msgs)
  /\ UNCHANGED <<now, msgs, lastFetch, conv>>
  /\ UNCHANGED managerVars
  /\ UNCHANGED roundVars

\* The new work of the one-to-one variant: the positions of the messages
\* given to the tool round.
NewWork(messages, lastFetchTime) ==
  {i \in 1..Len(messages) : IsNew(messages[i], lastFetchTime)}

\* One-to-one variant: context retrieval, tool round and final round; a
\* throw of any of them ends the run.
Infer ==
  /\ job.pc = "infer"
  /\ \E throws \in BOOLEAN :
       job' = [job EXCEPT !.inferred = TRUE,
                          !.selected = NewWork(job.messages, job.lastFetchTime),
                          !.pc = IF throws THEN "thrown" ELSE "send"]
  /\ UNCHANGED <<now, msgs, lastFetch, conv>>
  /\ UNCHANGED managerVars
  /\ UNCHANGED roundVars

\* One-to-one variant: the reply is sent to the other participant when the
\* send toggle is on; a send error is logged.
Send ==
  /\ job.pc = "send"
  /\ \E error \in BOOLEAN :
       LET sent1 == conv.send /\ ~error
       IN /\ msgs' = IF sent1 THEN Posted(AgentMessage(1)) ELSE msgs
          /\ job' = [job EXCEPT !.replied = @ \/ sent1, !.pc = "done"]
  /\ UNCHANGED <<now, lastFetch, conv>>
  /\ UNCHANGED managerVars
  /\ UNCHANGED roundVars

\* Group variant: a sender is taken up when one of its messages is new.
TakesUp(messages, u, lastFetchTime) ==
  \E i \in 1..Len(messages) :
    messages[i].from = u /\ IsNew(messages[i], lastFetchTime)

\* Group variant: the positions of the messages of sender u given to the
\* tool round, those that are new and mention the agent or reply to it.
SenderNewWork(messages, u, lastFetchTime) ==
  {i \in 1..Len(messages) :
     /\ messages[i].from = u
     /\ IsNew(messages[i], lastFetchTime)
     /\ messages[i].mention}

\* Group variant, top of the loop over the senders: skip the sender, or run
\* context retrieval, tool round and final round for it.
NextSender ==
  /\ job.pc = "sender"
  /\ LET u == Head(job.todo)
         rest == Tail(job.todo)
     IN IF ~TakesUp(job.messages, u, job.lastFetchTime)
        THEN job' = [job EXCEPT !.todo = rest,
                                !.pc = IF rest = <<>> THEN "done" ELSE "sender"]
        ELSE \E throws \in BOOLEAN :
               job' = [job EXCEPT
                         !.inferred = TRUE,
                         !.processed = @ \cup {u},
                         !.selected = SenderNewWork(job.messages, u, job.lastFetchTime),
                         !.pc = IF throws THEN "thrown" ELSE "reply"]
  /\ UNCHANGED <<now, msgs, lastFetch, conv>>
  /\ UNCHANGED managerVars
  /\ UNCHANGED roundVars

\* Group variant: the reply to the sender is sent into the conversation when
\* the send toggle is on; a send error is logged; then the next sender.
SendToGroup ==
  /\ job.pc = "reply"
  /\ \E error \in BOOLEAN :
       LET sent1 == conv.send /\ ~error
           rest == Tail(job.todo)
       IN /\ msgs' = IF sent1 THEN Posted(AgentMessage(Head(job.todo))) ELSE msgs
          /\ job' = [job EXCEPT !.replied = @ \/ sent1, !.todo = rest,
                                !.pc = IF rest = <<>> THEN "done" ELSE "sender"]
  /\ UNCHANGED <<now, lastFetch, conv>>
  /\ UNCHANGED managerVars
  /\ UNCHANGED roundVars

\* The run returns to its caller.  handleRefresh goes on to its storage
\* writes; the sweep marks the conversation read and stores the current time
\* as the watermark (setLastFetchTime).
Returned ==
  /\ job.pc = "done"
  /\ job' = JobIdle
  /\ lastFetch' = IF job.trigger = "sweep" THEN now ELSE lastFetch
  /\ UNCHANGED <<now, msgs, conv>>
  /\ UNCHANGED managerVars
  /\ UNCHANGED roundVars

\* The run throws to its caller: handleRefresh logs and rethrows, the sweep
\* is abandoned before setLastFetchTime.
Thrown ==
  /\ job.pc = "thrown"
  /\ job' = JobIdle
  /\ UNCHANGED <<now, msgs, lastFetch, conv>>
  /\ UNCHANGED managerVars
  /\ UNCHANGED roundVars

\* A participant posts a message while a run is under way, after the run has
\* fetched the messages of the conversation: the run does not see the post.
LateMessage ==
  /\ job.pc \notin {"idle", "fetch"}
  /\ \E u \in Participants, mention \in BOOLEAN :
       /\ mention => conv.isGroup
       /\ msgs' = Posted(UserMessage(u, mention))
  /\ UNCHANGED <<now, lastFetch, conv, job>>
  /\ UNCHANGED managerVars
  /\ UNCHANGED roundVars

\* A sweep calls the run.
SweepRun == StartRun /\ job'.trigger = "sweep"

\* The run of a sweep has returned and the sweep stops before its
\* setLastFetchTime: the run of a later conversation throws, or the process
\* ends.
Abandoned ==
  /\ job.pc = "done"
  /\ job.trigger = "sweep"
  /\ job' = JobIdle
  /\ UNCHANGED <<now, msgs, lastFetch, conv>>
  /\ UNCHANGED managerVars
  /\ UNCHANGED roundVars

\* No conversation traffic and no pipeline run.
PipeAtRest ==
  /\ now = 1
  /\ msgs = <<>>
  /\ lastFetch = 0
  /\ conv = [isGroup |-> FALSE, send |-> FALSE]
  /\ job = JobIdle

\* ---- splitMessage (utils/text.ts) ------------------------------------------
\* A string is a sequence of characters and an index is 0-based, as in the
\* code: the character at index i of text is text[i + 1] here.

\* Longest message given to splitMessage on its own.
MaxText == 4
\* Largest maxLength given to splitMessage on its own (the smallest is 1: the
\* loop of splitMessage makes no progress with a maxLength below 1).
MaxSplitLength == 3

\* The characters told apart by the patterns of findSplitPosition: a letter,
\* the white space characters (/\s/), and one character of each of the
\* classes /[.!?]/, /[;:]/ and /,/.
Chars == {"a", " ", "\n", "\r", ".", ";", ","}
WhiteSpace == {" ", "\n", "\r"}

Max(S) == CHOOSE x \in S : \A y \in S : y <= x
Least(S) == CHOOSE x \in S : \A y \in S : x <= y

\* text[index] ?? ''
At(text, index) == IF index >= 0 /\ index < Len(text) THEN text[index + 1] ELSE ""
\* /\s/.test(char)
IsSpace(char) == char \in WhiteSpace
\* text.slice(from, to)
Slice(text, from, to) == SubSeq(text, from + 1, to)

\* text.trim()
Trim(text) ==
  IF \A i \in 1..Len(text) : IsSpace(text[i]) THEN <<>>
  ELSE LET first == CHOOSE i \in 1..Len(text) :
                      ~IsSpace(text[i]) /\ \A j \in 1..(i - 1) : IsSpace(text[j])
           last == CHOOSE i \in 1..Len(text) :
                     ~IsSpace(text[i]) /\ \A j \in (i + 1)..Len(text) : IsSpace(text[j])
       IN SubSeq(text, first, last)

\* message.replace(/\r\n/g, '\n')
RECURSIVE Normalized(_)
Normalized(message) ==
  LET pairs == {i \in 1..(Len(message) - 1) :
                  message[i] = "\r" /\ message[i + 1] = "\n"}
  IN IF pairs = {} THEN message
     ELSE LET i == Least(pairs)
          IN SubSeq(message, 1, i - 1) \o <<"\n">>
               \o Normalized(SubSeq(message, i + 2, Len(message)))

\* The first index from index on that holds no white space, or text.length.
skipLeadingWhitespace(text, index) ==
  CHOOSE current \in index..Len(text) :
    /\ current = Len(text) \/ ~IsSpace(At(text, current))
    /\ \A c \in index..(current - 1) : IsSpace(At(text, c))

\* One past the last index from index down that holds no white space, and no
\* lower than startIndex + 1.
trimTrailingWhitespace(text, startIndex, index) ==
  LET cursor == CHOOSE c \in startIndex..index :
                  /\ c = startIndex \/ ~IsSpace(At(text, c))
                  /\ \A d \in (c + 1)..index : IsSpace(At(text, d))
  IN cursor + 1

\* The patterns handed to seekBoundary, in the order of the seekers.
Patterns == <<{"\n", "\r"}, {"."}, {";"}, {","}>>

\* seekBoundary: the highest index in startIndex+1..endIndex whose preceding
\* character matches the pattern and that is not passed over (a character
\* that is no white space, directly followed by a character that is none
\* either); -1 stands for null.
seekBoundaryInsideToken(text, startIndex, endIndex, pattern) ==
  LET found == {index \in (startIndex + 1)..endIndex :
                  At(text, index - 1) \in pattern}
  IN IF found = {} THEN -1
     ELSE LET index == Max(found)
          IN IF IsSpace(At(text, index - 1))
             THEN trimTrailingWhitespace(text, startIndex, index - 1)
             ELSE index
seekBoundary(text, startIndex, endIndex, pattern) ==
  LET found == {index \in (startIndex + 1)..endIndex :
                  /\ At(text, index - 1) \in pattern
                  /\ ~(/\ ~IsSpace(At(text, index - 1))
                       /\ At(text, index) # ""
                       /\ ~IsSpace(At(text, index)))}
  IN IF found = {} THEN -1
     ELSE LET index == Max(found)
          IN IF IsSpace(At(text, index - 1))
             THEN trimTrailingWhitespace(text, startIndex, index - 1)
             ELSE index

\* seekWhitespace: as seekBoundary for white space.
seekWhitespaceNever(text, startIndex, endIndex) == -1
seekWhitespace(text, startIndex, endIndex) ==
  LET found == {index \in (startIndex + 1)..endIndex : IsSpace(At(text, index - 1))}
  IN IF found = {} THEN -1
     ELSE trimTrailingWhitespace(text, startIndex, Max(found) - 1)

\* Math.min(startIndex + maxLength, text.length)
upperBoundPlusOne(text, startIndex, maxLength) ==
  Min(startIndex + maxLength + 1, Len(text))
upperBoundAtStart(text, startIndex, maxLength) == Min(startIndex, Len(text))
upperBound(text, startIndex, maxLength) == Min(startIndex + maxLength, Len(text))

\* findSplitPosition: the whole rest when it fits, else the result of the
\* first seeker that finds a boundary, else the upper bound.
findSplitPosition(text, startIndex, maxLength) ==
  LET ub == upperBound(text, startIndex, maxLength)
      results == [k \in 1..5 |->
                    IF k <= 4 THEN seekBoundary(text, startIndex, ub, Patterns[k])
                    ELSE seekWhitespace(text, startIndex, ub)]
      hits == {k \in 1..5 : results[k] # -1}
  IN IF ub = Len(text) THEN Len(text)
     ELSE IF hits = {} THEN ub
     ELSE results[Least(hits)]

\* No call of splitMessage.
SplitIdle ==
  [pc |-> "idle", message |-> <<>>, maxLength |-> 0, normalized |-> <<>>,
   startIndex |-> 0, chunks |-> <<>>, cuts |-> <<>>]

\* splitMessage is called with message and maxLength.
SplitCalled(message, maxLength) ==
  [SplitIdle EXCEPT !.pc = "call", !.message = message, !.maxLength = maxLength]

\* splitMessage up to its loop: the line ends are normalized, a blank message
\* returns no chunk, the white space at the front is skipped.
SplitMessageEnter ==
  /\ split.pc = "call"
  /\ LET normalized == Normalized(split.message)
         startIndex == skipLeadingWhitespace(normalized, 0)
     IN split' = IF Trim(normalized) = <<>>
                 THEN [split EXCEPT !.pc = "returned", !.normalized = normalized]
                 ELSE [split EXCEPT !.pc = "loop", !.normalized = normalized,
                                    !.startIndex = startIndex]
  /\ UNCHANGED <<reply, runs, attempt>>
  /\ UNCHANGED managerVars
  /\ UNCHANGED pipeVars

\* One turn of the loop of splitMessage; cuts keeps, for each turn, where the
\* chunk was cut (naturalEnd) and where the next one starts.
SplitMessageLoop ==
  /\ split.pc = "loop"
  /\ LET text == split.normalized
         naturalEnd == findSplitPosition(text, split.startIndex, split.maxLength)
         chunk == Trim(Slice(text, split.startIndex, naturalEnd))
         startIndex == skipLeadingWhitespace(text, naturalEnd)
     IN split' = [split EXCEPT
                    !.chunks = IF chunk # <<>> THEN Append(@, chunk) ELSE @,
                    !.cuts = Append(@, [end |-> naturalEnd, next |-> startIndex]),
                    !.startIndex = startIndex,
                    !.pc = IF startIndex < Len(text) THEN "loop" ELSE "returned"]
  /\ UNCHANGED <<reply, runs, attempt>>
  /\ UNCHANGED managerVars
  /\ UNCHANGED pipeVars
\* ---- reply phase of a pipeline run -----------------------------------------
\* What a run does once it has selected its new work: the tool round
\* (handleAiToolCalls), the final round, the text of the reply, its chunks
\* and their sending; in a sweep the read mark follows the run.

\* Tool calls the inference service asks for in one tool round.
MaxCalls == 2
\* Chunks of the longest reply.
MaxChunks == 3

\* splitMessage(message, maxLength = 300)
DefaultMaxLength == 300

\* A tool call: its name and its proposalId argument (0: absent).  The names
\* stand for a tool without argument, a tool that needs proposalId, and a
\* name that is not in the switch.
ToolCalls ==
  {[name |-> "fetchLilNounsActiveProposals", proposalId |-> 0],
   [name |-> "fetchLilNounsProposalSummary", proposalId |-> 0],
   [name |-> "fetchLilNounsProposalSummary", proposalId |-> 1],
   [name |-> "notATool", proposalId |-> 0]}

\* The call reaches a handler: its name is a case of the switch and the
\* argument the case needs is there.
Dispatched(call) ==
  \/ call.name = "fetchLilNounsActiveProposals"
  \/ call.name = "fetchLilNounsProposalSummary" /\ call.proposalId # 0

RECURSIVE CallLists(_)
CallLists(n) ==
  IF n = 0 THEN {<<>>}
  ELSE LET shorter == CallLists(n - 1)
       IN shorter \cup {Append(l, c) : l \in {u \in shorter : Len(u) = n - 1},
                                       c \in ToolCalls}

\* The literal fallback text.
IDontKnow == <<"I", " ", "d", "o", "n", "'", "t", " ", "k", "n", "o", "w">>

\* A reply of n words separated by single spaces, of 200, 199, ... letters.
Word(length) == [i \in 1..length |-> "a"]
RECURSIVE LongText(_)
LongText(n) ==
  IF n = 1 THEN Word(200)
  ELSE LongText(n - 1) \o <<" ">> \o Word(201 - n)

\* The response field of the final round: absent, or a text.  The texts are
\* the empty one, markdown only, white space only, a word, an emphasized
\* word, and replies of 2 to MaxChunks chunks.
Responses ==
  {[defined |-> FALSE, text |-> <<>>]}
  \cup {[defined |-> TRUE, text |-> t] :
          t \in {<<>>, <<"*", "*">>, <<" ">>, <<"a">>, <<"*", "*", "a", "*", "*">>}
                \cup {LongText(n) : n \in 2..MaxChunks}}

\* stripMarkdown on texts of letters, spaces and asterisks: the emphasis
\* rules take the asterisks away, the result is trimmed.
IsPlain(char) == char # "*"
stripMarkdown(text) == Trim(SelectSeq(text, IsPlain))

\* response ?? "I don't know"
OrIDontKnow(response) == IF response.defined THEN response.text ELSE IDontKnow

\* The text processOneToOneConversation hands to splitMessage.
fallbackResponse(response) ==
  LET plainResponse == Trim(stripMarkdown(OrIDontKnow(response)))
  IN IF Len(plainResponse) > 0 THEN plainResponse ELSE IDontKnow

\* The text processGroupConversation sends.
messageContent(response) == stripMarkdown(OrIDontKnow(response))

\* The results markLilNounsConversationAsRead returns: without a token,
\* after a rejected attempt that is not retried, and after a read.
NoResult == [returned |-> FALSE, success |-> FALSE, nonBlocking |-> FALSE]
MissingTokenResult == [returned |-> TRUE, success |-> FALSE, nonBlocking |-> FALSE]
FailedResult == [returned |-> TRUE, success |-> FALSE, nonBlocking |-> TRUE]
ReadResult == [returned |-> TRUE, success |-> TRUE, nonBlocking |-> FALSE]

\* The call of markLilNounsConversationAsRead: its retryAttempt, the
\* attempts made and the delays waited so far, its result.
NoMark == [retryAttempt |-> 0, attempts |-> 0, delays |-> <<>>, result |-> NoResult]

ReplyIdle ==
  [pc |-> "idle", isGroup |-> FALSE, send |-> FALSE, trigger |-> "none",
   token |-> FALSE, calls |-> <<>>, k |-> 0, toolsMessage |-> <<>>,
   threw |-> {}, toolThrew |-> FALSE, finalCalled |-> FALSE, kept |-> 0,
   chunks |-> <<>>, delivered |-> <<>>, failed |-> 0, mark |-> NoMark,
   later |-> FALSE, participants |-> <<>>]

\* The run has selected its new work and calls handleAiToolCalls.
ReplyStart(isGroup, send, trigger, hasToken) ==
  [ReplyIdle EXCEPT !.pc = "tools", !.isGroup = isGroup, !.send = send,
                    !.trigger = trigger, !.token = hasToken]

\* handleAiToolCalls, first inference call settles: it throws (the round
\* returns no result), or it asks for no tool, or for a list of tool calls.
ToolRequest ==
  /\ reply.pc = "tools"
  /\ \/ reply' = [reply EXCEPT !.pc = "final"]
     \/ \E calls \in CallLists(MaxCalls) :
          reply' = [reply EXCEPT !.calls = calls, !.k = 1,
                                 !.pc = IF calls = <<>> THEN "final" ELSE "dispatch"]
  /\ UNCHANGED <<split, runs, attempt>>
  /\ UNCHANGED managerVars
  /\ UNCHANGED pipeVars

\* What one turn of the loop over tool_calls leaves: the result pushed to
\* toolsMessage when the handler returns, nothing when it throws or when
\* the call reaches no handler.
AfterToolCallAborting(r, throws) ==
  LET call == r.calls[r.k]
      last == r.k = Len(r.calls)
  IN IF ~Dispatched(call)
     THEN [r EXCEPT !.k = @ + 1, !.pc = IF last THEN "final" ELSE "dispatch"]
     ELSE IF throws
     THEN [r EXCEPT !.toolsMessage = <<>>, !.threw = @ \cup {r.k},
                    !.toolThrew = TRUE, !.pc = "final"]
     ELSE [r EXCEPT !.k = @ + 1, !.pc = IF last THEN "final" ELSE "dispatch",
                    !.toolsMessage = Append(@, [name |-> call.name, call |-> r.k])]
AfterToolCall(r, throws) ==
  LET call == r.calls[r.k]
      last == r.k = Len(r.calls)
      next == [r EXCEPT !.k = @ + 1, !.pc = IF last THEN "final" ELSE "dispatch"]
  IN IF ~Dispatched(call) THEN next
     ELSE IF throws
     THEN [next EXCEPT !.threw = @ \cup {r.k}, !.toolThrew = TRUE]
     ELSE [next EXCEPT !.toolsMessage = Append(@, [name |-> call.name, call |-> r.k])]

\* The handler of the tool call at hand settles.
ToolDispatch ==
  /\ reply.pc = "dispatch"
  /\ \E throws \in BOOLEAN :
       /\ throws => Dispatched(reply.calls[reply.k])
       /\ reply' = AfterToolCall(reply, throws)
  /\ UNCHANGED <<split, runs, attempt>>
  /\ UNCHANGED managerVars
  /\ UNCHANGED pipeVars

\* The final inference call, made with toolsMessage at the end of its
\* message list, settles: it throws, which ends the run, or it returns a
\* response.  The one-to-one variant hands the text to splitMessage; the
\* group variant sends it as one message.
FinalRound ==
  /\ reply.pc = "final"
  /\ \/ /\ reply' = [reply EXCEPT !.pc = "thrown", !.finalCalled = TRUE,
                                  !.calls = <<>>, !.k = 0, !.toolsMessage = <<>>,
                                  !.threw = {}, !.kept = Len(reply.toolsMessage)]
        /\ UNCHANGED split
     \/ \E response \in Responses :
          IF reply.isGroup
          THEN /\ reply' = [reply EXCEPT
                              !.finalCalled = TRUE, !.calls = <<>>,
                              !.toolsMessage = <<>>, !.threw = {},
                              !.kept = Len(reply.toolsMessage),
                              !.chunks = <<messageContent(response)>>,
                              !.k = 1,
                              !.pc = IF reply.send THEN "send" ELSE "returned"]
               /\ UNCHANGED split
          ELSE /\ reply' = [reply EXCEPT
                              !.finalCalled = TRUE, !.calls = <<>>, !.k = 0,
                              !.toolsMessage = <<>>, !.threw = {},
                              !.kept = Len(reply.toolsMessage),
                              !.pc = "split"]
               /\ split' = SplitCalled(fallbackResponse(response), DefaultMaxLength)
  /\ UNCHANGED <<runs, attempt>>
  /\ UNCHANGED managerVars
  /\ UNCHANGED pipeVars

\* processOneToOneConversation once splitMessage has returned: no chunk, or
\* the send toggle off, ends the run without a send.
ChunksPrepared ==
  /\ reply.pc = "split"
  /\ split.pc = "returned"
  /\ reply' = [reply EXCEPT
                 !.chunks = split.chunks, !.k = 1,
                 !.pc = IF split.chunks # <<>> /\ reply.send THEN "send"
                        ELSE "returned"]
  /\ split' = SplitIdle
  /\ UNCHANGED <<runs, attempt>>
  /\ UNCHANGED managerVars
  /\ UNCHANGED pipeVars

\* What fetchLilNounsConversationParticipants returns to a one-to-one run:
\* the fids of the participants, none when the request failed or the
\* conversation data holds none.
ParticipantLists == {<<>>, <<AgentFid>>, <<AgentFid, 1>>}

\* p.fid !== config.agent.fid
IsOther(fid) == fid # AgentFid

\* Number(pipe(participants, filter(...), first)?.fid ?? 0)
recipientFid(participants) ==
  LET others == SelectSeq(participants, IsOther)
  IN IF others = <<>> THEN 0 ELSE others[1]

\* What the network holds of a message sent: which chunk it is, its length,
\* and the fid it is addressed to (one-to-one: recipientFid; group: the
\* sender that is answered, user 1).
Delivered(r) ==
  [chunk |-> r.k, length |-> Len(r.chunks[r.k]),
   to |-> IF r.isGroup THEN 1 ELSE recipientFid(r.participants)]

\* What the send of chunk k leaves.  One-to-one: an error breaks the loop.
\* Group: the one message is sent or the error is logged.
AfterSendSkipping(r, error) ==
  LET last == r.k = Len(r.chunks)
      next == [r EXCEPT !.k = @ + 1, !.pc = IF last THEN "returned" ELSE "send"]
  IN IF error THEN [next EXCEPT !.failed = r.k]
     ELSE [next EXCEPT !.delivered = Append(@, Delivered(r))]
AfterSend(r, error) ==
  LET last == r.k = Len(r.chunks)
  IN IF error THEN [r EXCEPT !.failed = r.k, !.pc = "returned"]
     ELSE [r EXCEPT !.delivered = Append(@, Delivered(r)), !.k = @ + 1,
                    !.pc = IF last THEN "returned" ELSE "send"]

\* sendDirectCast (one-to-one) or sendDirectCastMessage (group) settles.
SendChunk ==
  /\ reply.pc = "send"
  /\ \E error \in BOOLEAN : reply' = AfterSend(reply, error)
  /\ UNCHANGED <<split, runs, attempt>>
  /\ UNCHANGED managerVars
  /\ UNCHANGED pipeVars

\* The run returns to its caller, its chunks are gone with it.
\* handleRefresh is done with it; the loop
\* of the sweep calls markLilNounsConversationAsRead, which returns at once
\* without a token and opens a socket otherwise.
RunReturned ==
  /\ reply.pc = "returned"
  /\ LET over == [reply EXCEPT !.chunks = <<>>, !.k = 0]
     IN reply' = IF reply.trigger # "sweep" THEN [over EXCEPT !.pc = "over"]
                 ELSE IF ~reply.token
                 THEN [over EXCEPT !.pc = "marked", !.mark.result = MissingTokenResult]
                 ELSE [over EXCEPT !.pc = "markTry", !.mark.attempts = 1]
  /\ UNCHANGED <<split, runs, attempt>>
  /\ UNCHANGED managerVars
  /\ UNCHANGED pipeVars

\* How an attempt to mark the conversation read settles: the read frame is
\* taken as delivered, or the promise rejects.  The rejections are the 15 s
\* timeout of the race, a close whose reason holds the word timeout, the
\* WebSocket constructor or a send throwing, an error before the socket is
\* open, close code 4001, and any other close.
MarkOutcomes ==
  {"read", "race-timeout", "closed-timeout-reason", "constructor-throws",
   "connect-error", "auth-rejected", "closed", "send-throws"}
\* errorMessage.includes('timeout')
IncludesTimeout(outcome) == outcome \in {"race-timeout", "closed-timeout-reason"}

maxRetries == 3
baseDelay == 1000
RECURSIVE Pow2(_)
Pow2(n) == IF n = 0 THEN 1 ELSE 2 * Pow2(n - 1)

\* The catch block of markLilNounsConversationAsRead decides on a retry.
Retries(retryAttempt, outcome) == retryAttempt < maxRetries /\ IncludesTimeout(outcome)

\* What a rejected attempt leaves when no retry follows.
AfterGivingUp(r) == [r EXCEPT !.pc = "marked", !.mark.result = FailedResult]

MarkSettles ==
  /\ reply.pc = "markTry"
  /\ \E outcome \in MarkOutcomes :
       reply' =
         IF outcome = "read"
         THEN [reply EXCEPT !.pc = "marked", !.mark.result = ReadResult]
         ELSE IF Retries(reply.mark.retryAttempt, outcome)
         THEN [reply EXCEPT
                 !.pc = "markWait",
                 !.mark.delays = Append(@, baseDelay * Pow2(reply.mark.retryAttempt))]
         ELSE AfterGivingUp(reply)
  /\ UNCHANGED <<split, runs, attempt>>
  /\ UNCHANGED managerVars
  /\ UNCHANGED pipeVars

\* The delay before a retry is over: markLilNounsConversationAsRead calls
\* itself with retryAttempt + 1.
MarkRetry ==
  /\ reply.pc = "markWait"
  /\ reply' = [reply EXCEPT !.pc = "markTry", !.mark.retryAttempt = @ + 1,
                            !.mark.attempts = @ + 1]
  /\ UNCHANGED <<split, runs, attempt>>
  /\ UNCHANGED managerVars
  /\ UNCHANGED pipeVars

\* markLilNounsConversationAsRead has returned: the loop of the sweep goes
\* on to the next conversation.
NextConversation ==
  /\ reply.pc = "marked"
  /\ reply' = [reply EXCEPT !.pc = "over", !.later = TRUE]
  /\ UNCHANGED <<split, runs, attempt>>
  /\ UNCHANGED managerVars
  /\ UNCHANGED pipeVars

\* ---- runs and the watermark -------------------------------------------------
\* The runs that read or write the watermark: a sweep
\* (handleUnreadConversations) over the unread conversations, or the run
\* handleRefresh starts for one conversation.  Runs overlap freely.

\* Runs in flight at the same time.
MaxRuns == 2

\* A run: where it is, its kind, the conversations it has still to process,
\* the watermark values it has read, in order, and its writes of the watermark.
NoRun ==
  [pc |-> "idle", kind |-> "none", todo |-> 0, reads |-> <<>>, writes |-> 0]
NoRuns == [r \in 1..MaxRuns |-> NoRun]

\* A sweep starts with the conversations it is to process, a refresh run
\* with its one conversation.
RunStart(r) ==
  /\ runs[r].pc = "idle"
  /\ \/ \E n \in 0..MaxConvs :
          runs' = [runs EXCEPT ![r] =
                     [NoRun EXCEPT !.kind = "sweep", !.todo = n,
                                   !.pc = IF n = 0 THEN "save" ELSE "conv"]]
     \/ runs' = [runs EXCEPT ![r] =
                   [NoRun EXCEPT !.kind = "refresh", !.todo = 1, !.pc = "conv"]]
  /\ UNCHANGED <<split, reply, attempt>>
  /\ UNCHANGED managerVars
  /\ UNCHANGED pipeVars

\* processOneToOneConversation / processGroupConversation on the next
\* conversation of the run: it reads the watermark (getLastFetchTime),
\* filters against the value read, and returns or throws.  A throw ends
\* the run there and then, before any write.
RunConversation(r) ==
  /\ runs[r].pc = "conv"
  /\ \E throws \in BOOLEAN :
       runs' = [runs EXCEPT ![r] =
                  IF throws THEN NoRun
                  ELSE [@ EXCEPT !.reads = Append(@, lastFetch),
                                 !.todo = @ - 1,
                                 !.pc = IF runs[r].todo > 1 THEN "conv"
                                        ELSE IF runs[r].kind = "sweep" THEN "save"
                                        ELSE "done"]]
  /\ UNCHANGED <<split, reply, attempt>>
  /\ UNCHANGED managerVars
  /\ UNCHANGED pipeVars

\* The value handleUnreadConversations stores: DateTime.now().toISO().
WatermarkValueAsRead(run) == IF run.reads = <<>> THEN now ELSE run.reads[1]
WatermarkValue(run) == now

\* The sweep stores the watermark (setLastFetchTime) and is over.
RunSave(r) ==
  /\ runs[r].pc = "save"
  /\ lastFetch' = WatermarkValue(runs[r])
  /\ runs' = [runs EXCEPT ![r] = [@ EXCEPT !.writes = @ + 1, !.pc = "done"]]
  /\ UNCHANGED <<now, msgs, conv, job>>
  /\ UNCHANGED <<split, reply, attempt>>
  /\ UNCHANGED managerVars

\* The run is forgotten.
RunOver(r) ==
  /\ runs[r].pc = "done"
  /\ runs' = [runs EXCEPT ![r] = NoRun]
  /\ UNCHANGED <<split, reply, attempt>>
  /\ UNCHANGED managerVars
  /\ UNCHANGED pipeVars

\* No call of splitMessage, no reply phase and no run on the watermark.
\* ---- one attempt to mark a conversation read ---------------------------------
\* The Promise.race of markLilNounsConversationAsRead: the socket of the
\* attempt with its listeners and its two delayed sends, against a timer of
\* 15 s.  Each listener and each timer callback is one action.

\* No attempt: markLilNounsConversationAsRead is not called.
\*   sock, errored      the socket of the attempt and whether its error event
\*                      has been dispatched
\*   isResolved, isAuthenticated, connectionEstablished   the flags of the code
\*   authTimer, readTimer, raceTimer   pending setTimeout callbacks (1 s, 3 s, 15 s)
\*   settled            how the race has settled ("no": not yet)
\*   sockAtSettle       the state of the socket when the race settled
\*   frames             the frames sent, each with whether the race had
\*                      settled before it was sent
NoAttempt ==
  [pc |-> "idle", sock |-> "none", errored |-> FALSE, isResolved |-> FALSE,
   isAuthenticated |-> FALSE, connectionEstablished |-> FALSE,
   authTimer |-> FALSE, readTimer |-> FALSE, raceTimer |-> FALSE,
   settled |-> "no", sockAtSettle |-> "none", frames |-> <<>>]

\* The race settles with the first of its promises that settles; what
\* settles later changes nothing.
RaceSettled(a, result) ==
  IF a.settled # "no" THEN a
  ELSE [a EXCEPT !.settled = result, !.sockAtSettle = a.sock]

\* resolveOnce / rejectOnce: the first call closes the socket and settles
\* the promise of the socket.
SettleOnce(a, result) ==
  IF a.isResolved THEN a
  ELSE RaceSettled([a EXCEPT !.isResolved = TRUE, !.sock = AfterClose(@)], result)

\* ws.send(JSON.stringify({ messageType, ... })) returns.
FrameSent(a, messageType) ==
  [a EXCEPT !.frames = Append(@, [messageType |-> messageType,
                                  late |-> a.settled # "no"])]

\* The call of Promise.race: the executor of the first promise runs new
\* WebSocket(...), which throws (the promise rejects) or returns a connecting
\* socket; the executor of the second starts the 15 s timer.
AttemptStart ==
  /\ attempt.pc = "call"
  /\ \E newThrows \in BOOLEAN :
       attempt' = IF newThrows
                  THEN RaceSettled([attempt EXCEPT !.pc = "run", !.raceTimer = TRUE],
                                   "rejected")
                  ELSE [attempt EXCEPT !.pc = "run", !.raceTimer = TRUE,
                                       !.sock = "CONNECTING"]
  /\ UNCHANGED <<split, reply, runs>>
  /\ UNCHANGED managerVars
  /\ UNCHANGED pipeVars

\* 'open' listener: sends the authentication frame and starts the 1 s timer;
\* a send that throws rejects.
AttemptOpen ==
  /\ attempt.pc = "run"
  /\ attempt.sock = "CONNECTING"
  /\ ~attempt.errored
  /\ \E sendThrows \in BOOLEAN :
       LET opened == [attempt EXCEPT !.sock = "OPEN", !.connectionEstablished = TRUE]
       IN attempt' = IF sendThrows THEN SettleOnce(opened, "rejected")
                     ELSE [FrameSent(opened, "authenticate") EXCEPT !.authTimer = TRUE]
  /\ UNCHANGED <<split, reply, runs>>
  /\ UNCHANGED managerVars
  /\ UNCHANGED pipeVars

\* The callback of the 1 s timer: unless resolved, sendReadMessage(), which
\* sends the read frame and starts the 3 s timer; a send that throws rejects.
AttemptAuthTimer ==
  /\ attempt.authTimer
  /\ \E sendThrows \in BOOLEAN :
       LET fired == [attempt EXCEPT !.authTimer = FALSE]
           authed == [fired EXCEPT !.isAuthenticated = TRUE]
       IN attempt' = IF attempt.isResolved THEN fired
                     ELSE IF sendThrows THEN SettleOnce(authed, "rejected")
                     ELSE [FrameSent(authed, "direct-cast-read") EXCEPT !.readTimer = TRUE]
  /\ UNCHANGED <<split, reply, runs>>
  /\ UNCHANGED managerVars
  /\ UNCHANGED pipeVars

\* The callback of the 3 s timer: unless resolved, resolveOnce(true).
AttemptReadTimer ==
  /\ attempt.readTimer
  /\ attempt' = SettleOnce([attempt EXCEPT !.readTimer = FALSE], "resolved")
  /\ UNCHANGED <<split, reply, runs>>
  /\ UNCHANGED managerVars
  /\ UNCHANGED pipeVars

\* 'error' listener.
AttemptError ==
  /\ attempt.sock \in {"CONNECTING", "OPEN", "CLOSING"}
  /\ ~attempt.errored
  /\ LET a == [attempt EXCEPT !.errored = TRUE]
     IN attempt' = IF ~a.connectionEstablished THEN SettleOnce(a, "rejected")
                   ELSE IF a.isAuthenticated /\ ~a.isResolved THEN SettleOnce(a, "resolved")
                   ELSE SettleOnce(a, "rejected")
  /\ UNCHANGED <<split, reply, runs>>
  /\ UNCHANGED managerVars
  /\ UNCHANGED pipeVars

\* Close codes told apart by the 'close' listener: normal closure, the
\* code of a rejected token, and any other.
CloseCodes == {1000, 4001, 1006}

\* 'close' listener, the socket is closed.
AttemptClose ==
  /\ attempt.sock \in {"CONNECTING", "OPEN", "CLOSING"}
  /\ \E code \in CloseCodes :
       LET a == [attempt EXCEPT !.sock = "CLOSED"]
       IN attempt' = IF code = 4001 THEN SettleOnce(a, "rejected")
                     ELSE IF code = 1000 /\ a.isAuthenticated THEN SettleOnce(a, "resolved")
                     ELSE SettleOnce(a, "rejected")
  /\ UNCHANGED <<split, reply, runs>>
  /\ UNCHANGED managerVars
  /\ UNCHANGED pipeVars

\* The callback of the 15 s timer rejects the second promise of the race.
AttemptTimeout ==
  /\ attempt.raceTimer
  /\ attempt' = RaceSettled([attempt EXCEPT !.raceTimer = FALSE], "rejected")
  /\ UNCHANGED <<split, reply, runs>>
  /\ UNCHANGED managerVars
  /\ UNCHANGED pipeVars

RoundAtRest ==
  /\ split = SplitIdle
  /\ reply = ReplyIdle
  /\ runs = NoRuns
  /\ attempt = NoAttempt

NoRefresh ==
  [c \in Convs |-> [fetch |-> 0, run |-> 0, store |-> 0, via |-> "none", threw |-> FALSE]]
SweepIdle == [pc |-> "idle", todo |-> <<>>]

Init ==
  /\ token \in BOOLEAN
  /\ features \in [group : BOOLEAN, oneToOne : BOOLEAN]
  /\ ws = 0
  /\ sock = [s \in Sockets |-> "FREE"]
  /\ sent = [s \in Sockets |-> <<>>]
  /\ backoff = initialBackoff
  /\ timers = 0
  /\ lastDelay = 0
  /\ evq = 0
  /\ alarm \in {0, heartbeatInterval}
  /\ ctor = "pending"
  /\ refresh = NoRefresh
  /\ sweep = SweepIdle
  /\ frame = "none"
  /\ PipeAtRest
  /\ RoundAtRest

\* The manager once its first socket has opened and authenticated.
InitStream ==
  /\ token = TRUE
  /\ features \in [group : BOOLEAN, oneToOne : BOOLEAN]
  /\ ws = 1
  /\ sock = [s \in Sockets |-> IF s = 1 THEN "OPEN" ELSE "FREE"]
  /\ sent = [s \in Sockets |-> IF s = 1 THEN <<"authenticate">> ELSE <<>>]
  /\ backoff = initialBackoff
  /\ timers = 0
  /\ lastDelay = 0
  /\ evq = 0
  /\ alarm = heartbeatInterval
  /\ ctor = "done"
  /\ refresh = NoRefresh
  /\ sweep = SweepIdle
  /\ frame = "none"
  /\ PipeAtRest
  /\ RoundAtRest

\* The manager of a deployment with both conversation kinds enabled.
InitConn == Init /\ features = [group |-> TRUE, oneToOne |-> TRUE]

NextConn ==
  \/ Fetch
  \/ ReconnectTimer
  \/ CtorAlarm
  \/ Alarm
  \/ \E s \in Sockets : SocketOpen(s)
  \/ \E s \in Sockets : SocketError(s)
  \/ SocketCloseAfterError
  \/ \E s \in Sockets : SocketClose(s)

NextStream ==
  \/ SocketMessage
  \/ \E c \in Convs : RefreshEvent(c)
  \/ \E c \in Convs : RefreshFetched(c)
  \/ \E c \in Convs : PipelineEnd(c)
  \/ \E c \in Convs : RefreshStored(c)
  \/ SweepStart
  \/ SweepRunEnd
  \/ SweepMarked
  \/ SweepSave

Next == NextConn \/ NextStream

\* The whole system.  The connection manager and the refresh handlers meet
\* only in the open socket that delivers the frames, so each part is also
\* specified on its own below; the product of the two is large.
Spec == Init /\ [][Next]_vars
\* The connection manager alone, no inbound frame and no sweep.
SpecConn == InitConn /\ [][NextConn]_vars
\* Refresh events and sweeps over a connection that stays open.
SpecStream == InitStream /\ [][NextStream]_vars

\* The connection manager together with the refresh events it receives: the
\* socket is open at the start, and the events are those of conversation 1.
InitManager == InitStream /\ features = [group |-> TRUE, oneToOne |-> TRUE]

NextManager ==
  \/ Fetch
  \/ ReconnectTimer
  \/ Alarm
  \/ \E s \in Sockets : SocketOpen(s)
  \/ \E s \in Sockets : SocketError(s)
  \/ SocketCloseAfterError
  \/ \E s \in Sockets : SocketClose(s)
  \/ RefreshEvent(1)
  \/ RefreshFetched(1)
  \/ PipelineEnd(1)
  \/ RefreshStored(1)

SpecManager == InitManager /\ [][NextManager]_vars

\* The pipeline on one conversation, group or one-to-one, with its send
\* toggle on or off; the manager stays as it is once its socket is open.
InitPipe ==
  /\ token = TRUE
  /\ features = [group |-> TRUE, oneToOne |-> TRUE]
  /\ ws = 1
  /\ sock = [s \in Sockets |-> IF s = 1 THEN "OPEN" ELSE "FREE"]
  /\ sent = [s \in Sockets |-> IF s = 1 THEN <<"authenticate">> ELSE <<>>]
  /\ backoff = initialBackoff
  /\ timers = 0
  /\ lastDelay = 0
  /\ evq = 0
  /\ alarm = heartbeatInterval
  /\ ctor = "done"
  /\ refresh = NoRefresh
  /\ sweep = SweepIdle
  /\ frame = "none"
  /\ now = 1
  /\ msgs = <<>>
  /\ lastFetch = 0
  /\ conv \in [isGroup : BOOLEAN, send : BOOLEAN]
  /\ job = JobIdle
  /\ RoundAtRest

NextPipe ==
  \/ NewMessage
  \/ Tick
  \/ StartRun
  \/ FetchMessages
  \/ Infer
  \/ Send
  \/ NextSender
  \/ SendToGroup
  \/ Returned
  \/ Thrown

SpecPipe == InitPipe /\ [][NextPipe]_vars


\* The manager once its socket is open, both conversation kinds enabled.
ManagerAtOpen ==
  /\ token = TRUE
  /\ features = [group |-> TRUE, oneToOne |-> TRUE]
  /\ ws = 1
  /\ sock = [s \in Sockets |-> IF s = 1 THEN "OPEN" ELSE "FREE"]
  /\ sent = [s \in Sockets |-> IF s = 1 THEN <<"authenticate">> ELSE <<>>]
  /\ backoff = initialBackoff
  /\ timers = 0
  /\ lastDelay = 0
  /\ evq = 0
  /\ alarm = heartbeatInterval
  /\ ctor = "done"
  /\ refresh = NoRefresh
  /\ sweep = SweepIdle
  /\ frame = "none"

\* splitMessage on its own, for every message of up to MaxText characters
\* and every maxLength from 1 to MaxSplitLength.
RECURSIVE Texts(_)
Texts(n) ==
  IF n = 0 THEN {<<>>}
  ELSE LET shorter == Texts(n - 1)
       IN shorter \cup {Append(t, c) : t \in {u \in shorter : Len(u) = n - 1}, c \in Chars}

InitSplit ==
  /\ ManagerAtOpen
  /\ PipeAtRest
  /\ reply = ReplyIdle
  /\ runs = NoRuns
  /\ attempt = NoAttempt
  /\ \E message \in Texts(MaxText), maxLength \in 1..MaxSplitLength :
       split = SplitCalled(message, maxLength)

NextSplit ==
  \/ SplitMessageEnter
  \/ SplitMessageLoop

SpecSplit == InitSplit /\ [][NextSplit]_vars
\* splitMessage is a synchronous function: once called it keeps running.
SpecSplitFair == SpecSplit /\ WF_vars(NextSplit)


\* The reply phase of one run, either variant, send toggle on or off, started
\* by a refresh event or by a sweep, with or without a token for the read mark.
InitReply ==
  /\ ManagerAtOpen
  /\ PipeAtRest
  /\ split = SplitIdle
  /\ runs = NoRuns
  /\ attempt = NoAttempt
  /\ \E isGroup \in BOOLEAN, send \in BOOLEAN, trigger \in {"refresh", "sweep"},
        hasToken \in BOOLEAN :
       \E participants \in (IF isGroup THEN {<<>>} ELSE ParticipantLists) :
         reply = [ReplyStart(isGroup, send, trigger, hasToken)
                    EXCEPT !.participants = participants]

NextReply ==
  \/ ToolRequest
  \/ ToolDispatch
  \/ FinalRound
  \/ SplitMessageEnter
  \/ SplitMessageLoop
  \/ ChunksPrepared
  \/ SendChunk
  \/ RunReturned
  \/ MarkSettles
  \/ MarkRetry
  \/ NextConversation

SpecReply == InitReply /\ [][NextReply]_vars

\* Overlapping runs and the watermark they read and write.
InitMark ==
  /\ ManagerAtOpen
  /\ PipeAtRest
  /\ RoundAtRest

NextMark ==
  \/ Tick
  \/ \E r \in 1..MaxRuns : RunStart(r)
  \/ \E r \in 1..MaxRuns : RunConversation(r)
  \/ \E r \in 1..MaxRuns : RunSave(r)
  \/ \E r \in 1..MaxRuns : RunOver(r)

SpecMark == InitMark /\ [][NextMark]_vars

\* Sweeps over one one-to-one conversation, with posts that arrive during a
\* run and sweeps that stop before they store the watermark.
InitSweep == InitPipe /\ conv.isGroup = FALSE

NextSweep ==
  \/ NewMessage
  \/ LateMessage
  \/ Tick
  \/ SweepRun
  \/ FetchMessages
  \/ Infer
  \/ Send
  \/ Returned
  \/ Thrown
  \/ Abandoned

SpecSweep == InitSweep /\ [][NextSweep]_vars

\* One attempt to mark a conversation read, its events in any order.
InitAttempt ==
  /\ ManagerAtOpen
  /\ PipeAtRest
  /\ split = SplitIdle
  /\ reply = ReplyIdle
  /\ runs = NoRuns
  /\ attempt = [NoAttempt EXCEPT !.pc = "call"]

NextAttempt ==
  \/ AttemptStart
  \/ AttemptOpen
  \/ AttemptAuthTimer
  \/ AttemptReadTimer
  \/ AttemptError
  \/ AttemptClose
  \/ AttemptTimeout

SpecAttempt == InitAttempt /\ [][NextAttempt]_vars

\* The manager right after the connection of its open socket has failed: the
\* error listener and the close listener of the socket have run.
InitCalm ==
  /\ token = TRUE
  /\ features = [group |-> TRUE, oneToOne |-> TRUE]
  /\ ws = 1
  /\ sock = [s \in Sockets |-> IF s = 1 THEN "CLOSED" ELSE "FREE"]
  /\ sent = [s \in Sockets |-> IF s = 1 THEN <<"authenticate">> ELSE <<>>]
  /\ backoff = NextBackoff(NextBackoff(initialBackoff))
  /\ timers = 2
  /\ lastDelay = NextBackoff(initialBackoff)
  /\ evq = 0
  /\ alarm = heartbeatInterval
  /\ ctor = "done"
  /\ refresh = NoRefresh
  /\ sweep = SweepIdle
  /\ frame = "none"
  /\ PipeAtRest
  /\ RoundAtRest

\* The steps of the manager over a network that is calm: every constructor
\* call returns a socket, every socket opens, none fails, and a socket closes
\* only after connect() has called close() on it.
CalmReconnectTimer == ReconnectTimer /\ timers' = timers - 1
CalmAlarm == Alarm /\ timers' = timers
CalmSocketClose(s) == sock[s] = "CLOSING" /\ SocketClose(s)

NextCalm ==
  \/ CalmReconnectTimer
  \/ CalmAlarm
  \/ \E s \in Sockets : SocketOpen(s)
  \/ \E s \in Sockets : CalmSocketClose(s)

\* Timeouts fire, alarms fire, connecting sockets open and closing
\* handshakes complete.
SpecCalm ==
  /\ InitCalm
  /\ [][NextCalm]_vars
  /\ WF_vars(CalmReconnectTimer)
  /\ WF_vars(CalmAlarm)
  /\ WF_vars(\E s \in Sockets : SocketOpen(s))
  /\ WF_vars(\E s \in Sockets : CalmSocketClose(s))

\* ==== properties ==========================================================

\* handleRefresh invocations in flight for conversation c.
InFlight(r, c) == r[c].fetch + r[c].run + r[c].store

\* C1: while a pipeline run started by a refresh event for conversation c is
\* in flight, a further refresh event for c is dropped: it starts no handler
\* work and no further pipeline run for c.
C1_SecondRefreshDropped ==
  [][\A c \in Convs :
       refresh[c].run >= 1 =>
         /\ refresh'[c].fetch <= refresh[c].fetch
         /\ refresh'[c].run <= refresh[c].run]_vars

\* C2: a pipeline run that ends, by returning or by throwing, is no longer in
\* flight (a throw ends its handler, a return moves it on to the storage
\* writes), and whenever no run for c is in flight an arriving refresh event
\* for c that carries a message id is taken up, not dropped.
C2_RunEndClearsEntry ==
  /\ [][\A c \in Convs :
          /\ (refresh'[c].threw /\ ~refresh[c].threw) =>
               /\ refresh'[c].run = refresh[c].run - 1
               /\ InFlight(refresh', c) = InFlight(refresh, c) - 1
          /\ (RouteEnabled(c) /\ refresh'[c].store > refresh[c].store) =>
               /\ refresh'[c].run = refresh[c].run - 1
               /\ InFlight(refresh', c) = InFlight(refresh, c)]_vars
  /\ [](\A c \in Convs :
          (refresh[c].run = 0 /\ ws # 0 /\ sock[ws] = "OPEN"
             /\ HandlerCount < MaxHandlers) =>
            ENABLED (RefreshEvent(c) /\ refresh'[c].fetch = refresh[c].fetch + 1))

\* C2 witness: a run for conversation 1 has thrown, none is in flight, and a
\* later refresh event for conversation 1 has been taken up.
\* (At most MaxHandlers handlers are in flight at once, so with one ended by
\* the throw and MaxHandlers in flight, one arrived after the throw.)
C2_Witness ==
  refresh[1].threw /\ refresh[1].run = 0 /\ InFlight(refresh, 1) = MaxHandlers

\* C3: no conversation has two pipeline runs in flight at once, whether
\* refresh events or the sweep started them.
C3_AtMostOneRun == \A c \in Convs : Runs(c) <= 1

\* Some socket's 'open' event is dispatched in this step.
OpenStep == \E s \in Sockets : sock[s] = "CONNECTING" /\ sock'[s] = "OPEN"

\* C4: the delay of the first scheduleReconnect() after construction or after
\* an open is the floor, each later delay is the previous one doubled and
\* capped by the ceiling, so the delays never decrease and never exceed it.
C4_BackoffDoublesCapped ==
  /\ backoff <= maxBackoff
  /\ lastDelay <= maxBackoff
  /\ lastDelay = 0 => backoff = initialBackoff
  /\ lastDelay # 0 =>
       /\ lastDelay >= initialBackoff
       /\ backoff >= lastDelay
       /\ backoff = Min(2 * lastDelay, maxBackoff)

\* C4 witness: consecutive failures have driven the delay to the ceiling.
C4_Witness == lastDelay = maxBackoff /\ backoff = maxBackoff /\ timers > 0

\* C5: a step lowers backoff only if it dispatches a socket's open event, and
\* every step that dispatches an open event leaves backoff at the floor.
C5_ResetOnlyOnOpen ==
  [][/\ backoff' < backoff => OpenStep
     /\ OpenStep => backoff' = initialBackoff]_vars

\* C5 witness: a reconnect was scheduled (its timeout is still pending), and
\* a socket opened afterwards and put backoff back to the floor.
C5_Witness ==
  /\ ws # 0 /\ sock[ws] = "OPEN"
  /\ timers > 0
  /\ lastDelay = 0
  /\ backoff = initialBackoff

\* C6: every error event and every close event of a socket leaves the manager
\* DISCONNECTED and with one more reconnect scheduled.
C6_FailureDisconnects ==
  [][\A s \in Sockets :
       (Live(sock[s]) /\ sock'[s] \in {"CLOSED", "FREE"}) =>
         /\ ConnState' = "DISCONNECTED"
         /\ timers' = timers + 1]_vars

\* C7: every run of alarm() leaves an alarm pending one heartbeatInterval
\* ahead, and no step removes a pending alarm.
C7_AlarmRescheduled ==
  [][/\ Alarm => alarm' = heartbeatInterval
     /\ alarm # 0 => alarm' = heartbeatInterval]_vars

\* C7 witness: alarm() has run (a heartbeat was sent) and an alarm is pending.
C7_Witness ==
  /\ alarm = heartbeatInterval
  /\ ctor = "done"
  /\ \E s \in Sockets : Len(sent[s]) >= 2 /\ sent[s][2] = "heartbeat"

\* The effect of an invoked connect(): nothing without a credential; with
\* one, a connecting socket is closed and either this.ws is a new connecting
\* socket that has sent nothing or (the constructor threw) one more reconnect
\* is scheduled.
ConnectInvoked ==
  token =>
    /\ \A s \in Sockets : sock[s] = "CONNECTING" /\ s = ws =>
         (sock'[s] = "CLOSING" /\ s # ws') \/ timers' = timers + 1
    /\ \/ timers' = timers + 1 /\ ws' = ws
       \/ /\ timers' = timers
          /\ ws' # 0 /\ sock'[ws'] = "CONNECTING" /\ sent'[ws'] = <<>>
          /\ sock[ws'] \in {"FREE", "CLOSED"}

\* C8 as stated: alarm() on an open socket sends no frame and changes neither
\* the socket nor backoff; alarm() on a socket that is not open invokes
\* connect().
C8_OpenCheckIsNoOp ==
  [][Alarm =>
       IF ws # 0 /\ sock[ws] = "OPEN"
       THEN sent' = sent /\ sock' = sock /\ ws' = ws /\ backoff' = backoff
       ELSE ConnectInvoked]_vars

\* C8 amended: alarm() on an open socket sends at most one frame, a
\* heartbeat on that socket, and changes neither the socket nor backoff nor
\* the reconnect timeouts; alarm() on a socket that is not open invokes
\* connect() and sends no heartbeat.
C8_OpenCheckSendsHeartbeat ==
  [][Alarm =>
       IF ws # 0 /\ sock[ws] = "OPEN"
       THEN /\ sent' \in {sent, [sent EXCEPT ![ws] = Append(@, "heartbeat")]}
            /\ sock' = sock /\ ws' = ws /\ backoff' = backoff /\ timers' = timers
       ELSE /\ ConnectInvoked
            /\ \A s \in Sockets : sent'[s] \in {sent[s], <<>>}]_vars

\* C8 witness: alarm() ran on an open socket and its heartbeat is the frame
\* after the authentication.
C8_Witness ==
  /\ ws # 0 /\ sock[ws] = "OPEN"
  /\ sent[ws] = <<"authenticate", "heartbeat">>

\* C9: at most one socket is connecting or open, and it is this.ws.
C9_SingleConnection ==
  /\ Cardinality({s \in Sockets : sock[s] \in {"CONNECTING", "OPEN"}}) <= 1
  /\ \A s \in Sockets : sock[s] \in {"CONNECTING", "OPEN"} => s = ws

\* C9 witness: connect() replaced a socket that was still connecting or open:
\* the old one is closing while the new one connects.
C9_Witness ==
  /\ ws # 0 /\ sock[ws] = "CONNECTING"
  /\ \E s \in Sockets : s # ws /\ sock[s] = "CLOSING"

\* C10: the manager becomes OPEN only from CONNECTING; a new socket has sent
\* nothing; a socket that has opened has sent its authentication frame; and
\* the frames of a socket are one authentication frame followed by others.
C10_AuthFirstOnce ==
  /\ [][ConnState' = "OPEN" /\ ConnState # "OPEN" => ConnState = "CONNECTING"]_vars
  /\ [](\A s \in Sockets :
          /\ sock[s] = "CONNECTING" => sent[s] = <<>>
          /\ sock[s] = "OPEN" => sent[s] # <<>>
          /\ sent[s] # <<>> =>
               /\ sent[s][1] = "authenticate"
               /\ \A i \in 2..Len(sent[s]) : sent[s][i] # "authenticate")

\* C10 witness: an open socket whose authentication frame was followed by
\* heartbeats.
C10_Witness ==
  \E s \in Sockets :
    sock[s] = "OPEN" /\ sent[s] = <<"authenticate", "heartbeat", "heartbeat">>


\* C11: without a credential every connect() returns at once: it opens no
\* socket, schedules no reconnect (the catch branch is not taken) and leaves
\* backoff alone, its caller goes on as after a normal return (alarm() sets
\* the next alarm), and the manager is DISCONNECTED throughout.
C11_NoTokenConnectSilent ==
  /\ [](~token =>
          /\ ConnState = "DISCONNECTED"
          /\ ws = 0
          /\ \A s \in Sockets : sock[s] = "FREE" /\ sent[s] = <<>>
          /\ timers = 0)
  /\ [][(~token /\ (Fetch \/ Alarm \/ ReconnectTimer)) =>
          /\ UNCHANGED <<ws, sock, sent, backoff, timers, lastDelay>>
          /\ (Alarm => alarm' = heartbeatInterval)]_vars

\* C11 witness: no credential is configured, the manager is constructed, and
\* alarm() and fetch() both call connect() from here and come back to this
\* very state.
C11_Witness ==
  /\ ~token
  /\ ctor = "done"
  /\ alarm = heartbeatInterval
  /\ ConnState = "DISCONNECTED"
  /\ ENABLED (Alarm /\ UNCHANGED vars)
  /\ ENABLED (Fetch /\ UNCHANGED vars)

HandlerStep ==
  \/ SocketMessage
  \/ \E c \in Convs :
       RefreshEvent(c) \/ RefreshFetched(c) \/ PipelineEnd(c) \/ RefreshStored(c)

\* C13: no step of the message listener or of a refresh handler, whether it
\* ends in an error or not, touches the socket, the reconnect timeouts, the
\* backoff or the pending alarm; and after a dropped frame or a pipeline run
\* that threw, the open socket still takes up refresh events and frames.
C13_HandlerErrorsContained ==
  /\ [][HandlerStep =>
          /\ UNCHANGED <<ws, sock, sent, backoff, timers, lastDelay, evq>>
          /\ alarm' = alarm /\ alarm # 0]_vars
  /\ [](\A c \in Convs :
          ((frame = "caught" \/ refresh[c].threw)
             /\ ws # 0 /\ sock[ws] = "OPEN" /\ evq = 0
             /\ HandlerCount < MaxHandlers) =>
            /\ ENABLED (RefreshEvent(c) /\ refresh'[c].fetch = refresh[c].fetch + 1)
            /\ ENABLED SocketMessage)

\* C13 witness: a frame's handling threw and was dropped, a pipeline run
\* threw, the socket is still this.ws and open, no reconnect is pending, the
\* alarm is pending, and handlers started after the throw are in flight.
C13_Witness ==
  /\ frame = "caught"
  /\ refresh[1].threw
  /\ ws # 0 /\ sock[ws] = "OPEN"
  /\ timers = 0
  /\ alarm = heartbeatInterval
  /\ refresh[1].fetch = MaxHandlers

\* C14: when handleRefresh has fetched the conversation of a refresh event,
\* it starts the group variant if and only if the conversation is a group and
\* handleGroupConversations is on, the one-to-one variant if and only if it
\* is not a group and handleOneToOneConversations is on, and no run at all
\* when the matching toggle is off; runs in flight are of the variant that
\* matches their conversation.
C14_RoutedByFlagAndToggle ==
  /\ [][\A c \in Convs :
          (/\ refresh'[c].fetch = refresh[c].fetch - 1
           /\ refresh'[c].run + refresh'[c].store > refresh[c].run + refresh[c].store) =>
            LET started == refresh'[c].run = refresh[c].run + 1
            IN /\ (started /\ refresh'[c].via = "group") <=>
                    (IsGroup(c) /\ features.group)
               /\ (started /\ refresh'[c].via = "oneToOne") <=>
                    (~IsGroup(c) /\ features.oneToOne)
               /\ ~started =>
                    /\ refresh'[c].run = refresh[c].run
                    /\ refresh'[c].via = refresh[c].via]_vars
  /\ [](\A c \in Convs :
          /\ refresh[c].run = 0 <=> refresh[c].via = "none"
          /\ refresh[c].via = "group" => IsGroup(c) /\ features.group
          /\ refresh[c].via = "oneToOne" => ~IsGroup(c) /\ features.oneToOne)

\* C14 witness: with the group toggle on and the one-to-one toggle off, the
\* refresh event of group 2 has started the group variant and that of the
\* one-to-one conversation 1 went on to the storage writes without a run.
C14_Witness ==
  /\ features = [group |-> TRUE, oneToOne |-> FALSE]
  /\ refresh[2].run = 1 /\ refresh[2].via = "group"
  /\ refresh[1].run = 0 /\ refresh[1].store = 1

\* C15: while a pipeline run for conversation c1 is in flight, a refresh
\* event for another conversation c2 is taken up, and the handler of c2,
\* once it has fetched a conversation whose toggle is on, starts its own run.
C15_OtherConversationNotDropped ==
  \A c1, c2 \in Convs :
    (c1 # c2 /\ refresh[c1].run >= 1) =>
      /\ (ws # 0 /\ sock[ws] = "OPEN" /\ HandlerCount < MaxHandlers) =>
           ENABLED (RefreshEvent(c2) /\ refresh'[c2].fetch = refresh[c2].fetch + 1)
      /\ (refresh[c2].fetch >= 1 /\ RouteEnabled(c2)) =>
           ENABLED (/\ RefreshFetched(c2)
                    /\ refresh'[c2].run = refresh[c2].run + 1
                    /\ refresh'[c1].run = refresh[c1].run)

\* C15 witness: a run for conversation 1 and a run for conversation 2 are in
\* flight at the same time.
C15_Witness == refresh[1].run = 1 /\ refresh[2].run = 1

\* alarm() is not held back by a bound of the model.
AlarmWithinBounds ==
  IF ws # 0 /\ sock[ws] = "OPEN" THEN Len(sent[ws]) < MaxFrames
  ELSE Pending < MaxPending

\* C16: while handlers and pipeline runs started by message events are in
\* flight, a pending alarm can fire and a pending reconnect timeout can run
\* connect(), each to completion and without touching the handlers; and
\* whatever alarm or reconnect is pending, the open socket still dispatches
\* its frames.
C16_TimersAndMessagesIndependent ==
  /\ [](\A c \in Convs :
          (refresh[c].run >= 1 /\ evq = 0) =>
            /\ (alarm # 0 /\ AlarmWithinBounds) =>
                 ENABLED (Alarm /\ alarm' = heartbeatInterval /\ refresh' = refresh)
            /\ timers > 0 =>
                 ENABLED (ReconnectTimer /\ timers' <= timers /\ refresh' = refresh))
  /\ []((ws # 0 /\ sock[ws] = "OPEN" /\ evq = 0) =>
          /\ ENABLED SocketMessage
          /\ \A c \in Convs :
               HandlerCount < MaxHandlers =>
                 ENABLED (RefreshEvent(c) /\ refresh'[c].fetch = refresh[c].fetch + 1))
  /\ [][(Alarm \/ ReconnectTimer \/ Fetch) => refresh' = refresh /\ frame' = frame]_vars
  /\ [][HandlerStep => alarm' = alarm /\ timers' = timers /\ ws' = ws]_vars

\* C16 witness: a pipeline run is in flight, and since the socket that
\* delivered its event last opened a reconnect was scheduled and every
\* reconnect timeout has run connect(): this.ws is a socket still connecting.
C16_Witness ==
  /\ refresh[1].run >= 1
  /\ ws # 0 /\ sock[ws] = "CONNECTING"
  /\ lastDelay # 0
  /\ timers = 0

\* C17: in a run of either variant whose fetched messages end with a message
\* of the agent itself, no inference round is run and no reply is sent.
C17_SelfMessageGuard ==
  (job.pc \notin {"idle", "fetch"} /\ LastIsAgent(job.messages)) =>
    (~job.inferred /\ ~job.replied)

\* C18: once the agent has replied to a user's messages, it replies to that
\* user again only after someone other than the agent has posted: between
\* two replies to the same user the conversation holds a message that is not
\* the agent's.  (A reply is one message here, however many chunks it has.)
C18_OneReplyPerBatch ==
  \A i, j \in 1..Len(msgs) :
    (/\ i < j
     /\ msgs[i].from = AgentFid /\ msgs[j].from = AgentFid
     /\ msgs[i].to = msgs[j].to
     /\ \E h \in 1..(i - 1) : msgs[h].from = msgs[i].to) =>
      \E k \in (i + 1)..(j - 1) : msgs[k].from # AgentFid

\* C19: the new work of a run is cut at the watermark the run read, strictly:
\* no message given to the tool round has a timestamp equal to or below it;
\* in the one-to-one variant every fetched message above it is given, and in
\* the group variant every message above it of the sender being processed
\* that mentions the agent or replies to it.
C19_NewWorkAboveWatermark ==
  job.inferred =>
    /\ \A i \in job.selected :
         i \in 1..Len(job.messages) /\ job.messages[i].ts > job.lastFetchTime
    /\ (job.pc = "send" /\ ~conv.isGroup) =>
         \A i \in 1..Len(job.messages) :
           job.messages[i].ts > job.lastFetchTime => i \in job.selected
    /\ (job.pc = "reply" /\ conv.isGroup) =>
         \A i \in 1..Len(job.messages) :
           (/\ job.messages[i].ts > job.lastFetchTime
            /\ job.messages[i].from = Head(job.todo)
            /\ job.messages[i].mention) => i \in job.selected

\* C19 witness: a one-to-one run read watermark 2 and fetched messages with
\* timestamps 1, 2 and 3; its new work is the message at 3 alone.
C19_Witness ==
  /\ ~conv.isGroup
  /\ job.pc = "send"
  /\ job.lastFetchTime = 2
  /\ Len(job.messages) = 3
  /\ \A i \in 1..3 : job.messages[i].ts = i
  /\ job.selected = {3}

\* C20: in a group conversation every sender the run has processed (inference
\* rounds run, reply sent or about to be) has among the fetched messages one
\* that is newer than the watermark and mentions the agent or replies to it.
C20_OnlyQualifyingSenders ==
  conv.isGroup =>
    \A u \in job.processed :
      \E i \in 1..Len(job.messages) :
        /\ job.messages[i].from = u
        /\ job.messages[i].ts > job.lastFetchTime
        /\ job.messages[i].mention

\* ---- splitMessage ---------------------------------------------------------

InnerCuts ==
  {k \in 1..Len(split.cuts) : split.cuts[k].next < Len(split.normalized)}
\* Cut k falls on white space of the text: white space lies between the end
\* of the chunk and the start of the next one.
AtWhiteSpace(k) == split.cuts[k].next > split.cuts[k].end

\* C24: every boundary between two chunks falls where the text has white
\* space, never inside a word or a URL.
C24_BoundariesAtWhiteSpace ==
  \A k \in InnerCuts : AtWhiteSpace(k)

\* The characters of the chunk cut at cut k, before trimming.
CutSlice(k) ==
  Slice(split.normalized,
        IF k = 1 THEN skipLeadingWhitespace(split.normalized, 0)
        ELSE split.cuts[k - 1].next,
        split.cuts[k].end)

\* C24 as the code has it: a boundary falls on white space unless the
\* maxLength characters from the start of the chunk hold no white space at
\* all; the chunk is then exactly these maxLength characters.
C24_BoundariesAtWhiteSpaceOrLongToken ==
  \A k \in InnerCuts :
    \/ AtWhiteSpace(k)
    \/ /\ Len(CutSlice(k)) = split.maxLength
       /\ \A i \in 1..split.maxLength : ~IsSpace(CutSlice(k)[i])

\* A message with a word longer than maxLength after a shorter one: the
\* first boundary falls on white space, the second inside the long word.
C24_Witness ==
  /\ split.pc = "returned"
  /\ \E k \in InnerCuts : AtWhiteSpace(k)
  /\ \E k \in InnerCuts : ~AtWhiteSpace(k)

\* chunks.join(' ')
RECURSIVE Joined(_)
Joined(chunks) ==
  IF chunks = <<>> THEN <<>>
  ELSE IF Len(chunks) = 1 THEN chunks[1]
  ELSE chunks[1] \o <<" ">> \o Joined(Tail(chunks))

\* The text holds a sentence boundary: a sentence end or a line break.
HasSentenceBoundary(text) ==
  \E i \in 1..Len(text) : text[i] \in {".", "\n", "\r"}

\* C25: the chunks of a message without sentence boundary, joined by single
\* spaces, are the message.
C25_JoinReproduces ==
  (split.pc = "returned" /\ ~HasSentenceBoundary(split.message))
    => Joined(split.chunks) = split.message

\* The white space of the text is single spaces between words, and no word
\* is longer than n characters.
SingleSpacedWordsUpTo(text, n) ==
  /\ text # <<>> => (~IsSpace(text[1]) /\ ~IsSpace(text[Len(text)]))
  /\ \A i \in 1..Len(text) : IsSpace(text[i]) => text[i] = " "
  /\ \A i \in 1..(Len(text) - 1) : ~(IsSpace(text[i]) /\ IsSpace(text[i + 1]))
  /\ \A i \in 1..(Len(text) - n) : \E j \in i..(i + n) : IsSpace(text[j])

\* C25 as the code has it: joining reproduces a message without sentence
\* boundary when its words are separated by single spaces, it neither starts
\* nor ends with white space, and none of its words is longer than maxLength.
C25_JoinReproducesSingleSpaced ==
  (/\ split.pc = "returned"
   /\ ~HasSentenceBoundary(split.message)
   /\ SingleSpacedWordsUpTo(split.message, split.maxLength))
    => Joined(split.chunks) = split.message

\* Such a message, split after a comma that is followed by a space.
C25_Witness ==
  /\ split.pc = "returned"
  /\ ~HasSentenceBoundary(split.message)
  /\ SingleSpacedWordsUpTo(split.message, split.maxLength)
  /\ Len(split.chunks) = 2
  /\ split.chunks[1][Len(split.chunks[1])] = ","
  /\ Joined(split.chunks) = split.message

\* ---- reply phase -----------------------------------------------------------

\* The tool results the final call is to receive: one for each call that
\* reached a handler which did not throw, in the order of the calls.
RECURSIVE ResultsUpTo(_, _)
ResultsUpTo(r, n) ==
  IF n = 0 THEN <<>>
  ELSE LET before == ResultsUpTo(r, n - 1)
       IN IF Dispatched(r.calls[n]) /\ n \notin r.threw
          THEN Append(before, [name |-> r.calls[n].name, call |-> n])
          ELSE before

\* C21: a tool handler that throws leaves only its own result out: while the
\* round runs, toolsMessage holds the results of all other calls handled so
\* far; the final call is made with exactly the results of the calls that
\* did not throw; and a run in which a handler threw still makes the final
\* call and, unless the final call throws or a send fails, still sends.
C21_ToolFailureIsolated ==
  /\ reply.pc = "dispatch" => reply.toolsMessage = ResultsUpTo(reply, reply.k - 1)
  /\ reply.pc = "final" => reply.toolsMessage = ResultsUpTo(reply, Len(reply.calls))
  /\ (reply.toolThrew /\ reply.pc \notin {"dispatch", "final"}) => reply.finalCalled
  /\ (/\ reply.toolThrew
      /\ reply.pc \in {"returned", "markTry", "markWait", "marked", "over"}
      /\ reply.send
      /\ reply.failed = 0)
       => reply.delivered # <<>>

\* A handler threw, the result of another call went into the final call, and
\* the reply was sent.
C21_Witness ==
  /\ reply.pc = "over"
  /\ reply.toolThrew
  /\ reply.kept >= 1
  /\ reply.finalCalled
  /\ reply.delivered # <<>>

\* C22: no message sent is empty (an absent or empty response is replaced by
\* the fallback text).
C22_NeverEmptySend ==
  \A i \in 1..Len(reply.delivered) : reply.delivered[i].length > 0

\* C26: the chunks sent are a prefix of the chunks of the reply, in order;
\* after a failed send nothing more is sent and the run is over.
C26_ChunksSentArePrefix ==
  /\ \A i \in 1..Len(reply.delivered) : reply.delivered[i].chunk = i
  /\ reply.pc \in {"send", "returned"} =>
       /\ Len(reply.delivered) <= Len(reply.chunks)
       /\ \A i \in 1..Len(reply.delivered) :
            reply.delivered[i].length = Len(reply.chunks[i])
  /\ reply.failed # 0 =>
       /\ Len(reply.delivered) = reply.failed - 1
       /\ reply.pc # "send"

\* The second of three chunks failed: one chunk was sent, the run is over.
C26_Witness ==
  /\ ~reply.isGroup
  /\ Len(reply.chunks) = 3
  /\ reply.failed = 2
  /\ Len(reply.delivered) = 1
  /\ reply.pc = "returned"

C28_FailedAttemptsRetried ==
  (/\ reply.mark.result.returned
   /\ ~reply.mark.result.success
   /\ reply.token)
    => /\ reply.mark.attempts = maxRetries + 1
       /\ reply.mark.delays = [i \in 1..maxRetries |-> baseDelay * Pow2(i - 1)]

\* ---- watermark -------------------------------------------------------------

\* C29: no step replaces the stored watermark by an older time.
C29_WatermarkNeverDecreases == [][lastFetch' >= lastFetch]_vars

\* Two sweeps overlap; the one that started first has not stored yet, the
\* other has stored a watermark newer than the one the first has read.
C29_Witness ==
  \E r \in 1..MaxRuns, q \in 1..MaxRuns :
    /\ r # q
    /\ runs[r].pc = "save"
    /\ runs[r].reads # <<>>
    /\ runs[r].reads[1] < lastFetch
    /\ runs[q].pc = "done"
    /\ runs[q].writes = 1

\* C30: a run that has returned has read the watermark once and has stored it
\* once; all its conversations were filtered against the one value read.
C30_ReadOnceWrittenOnce ==
  \A r \in 1..MaxRuns :
    runs[r].pc = "done"
      => /\ Len(runs[r].reads) = 1
         /\ runs[r].writes = 1

\* ---- C39 ------------------------------------------------------------------
\* C39: splitMessage terminates for every message and every maxLength of at
\* least 1: the call returns, every turn of its loop moves startIndex
\* strictly forward, and there are never more chunks than the message has
\* characters.
C39_SplitMessageTerminates ==
  /\ <>(split.pc = "returned")
  /\ [][split.pc = "loop" => split'.startIndex > split.startIndex]_vars
  /\ [](Len(split.chunks) <= Len(split.message))

\* A call that has returned as many chunks as its message has characters,
\* after as many turns of the loop.
C39_Witness ==
  /\ split.pc = "returned"
  /\ Len(split.message) >= 3
  /\ Len(split.chunks) = Len(split.message)
  /\ Len(split.cuts) = Len(split.message)

\* ---- C35 ------------------------------------------------------------------
\* C35: each connection failure schedules exactly one reconnect: at most one
\* reconnect timeout is pending at any instant, and the close event that
\* follows the error event of a socket schedules nothing and leaves backoff
\* as the error event left it.
C35_OneReconnectPerFailure ==
  [][/\ timers' <= 1
     /\ (evq # 0 /\ evq' = 0) => (timers' = timers /\ backoff' = backoff)]_vars

\* ---- C34 ------------------------------------------------------------------
\* C34: over a network that stays calm the manager stabilises: from some
\* point on this.ws is an open socket for good (no connect() closes it).
C34_ManagerStabilises == <>[]IsOpen

\* ---- C31 ------------------------------------------------------------------
\* The one-to-one run has come to its end after a send that failed.
SendFailed ==
  /\ ~conv.isGroup
  /\ job.pc = "done"
  /\ job.inferred
  /\ conv.send
  /\ ~job.replied

\* C31: when the send of the reply fails, the end of the run leaves the
\* watermark as it was before the run.
C31_SendFailureAdvancesNothing ==
  [][SendFailed => lastFetch' = lastFetch]_vars

\* ---- C36 ------------------------------------------------------------------
\* C36: a one-to-one run that finds no message makes no inference call and
\* sends no reply.
C36_EmptyConversationSkipped ==
  (/\ ~conv.isGroup
   /\ job.pc \notin {"idle", "fetch"}
   /\ job.messages = <<>>) => (~job.inferred /\ ~job.replied)

\* ---- C32 ------------------------------------------------------------------
\* The messages the run in progress has selected as new work.
SelectedMessages == {job.messages[j] : j \in job.selected}

\* C32: a step that advances the watermark moves it past no message of a
\* user that the run completing in this step has not selected as new work
\* (where every run is a run of a sweep, a message below the watermark was
\* accounted for when the watermark passed it).
C32_WatermarkPassesNoUnselected ==
  [][lastFetch' > lastFetch =>
       \A i \in 1..Len(msgs) :
         (/\ msgs[i].from # AgentFid
          /\ msgs[i].ts > lastFetch
          /\ msgs[i].ts < lastFetch') => msgs[i] \in SelectedMessages]_vars

\* ---- C33 ------------------------------------------------------------------
\* C33: a sweep that stops before its setLastFetchTime leaves the watermark
\* unchanged, and a run of a sweep that returns has selected as new work
\* every message of a user above the watermark it has read, those of a sweep
\* that stopped included.
C33_StoppedSweepRedone ==
  [][/\ Abandoned => lastFetch' = lastFetch
     /\ (job.pc = "done" /\ job'.pc = "idle") =>
          \A i \in 1..Len(job.messages) :
            (/\ job.messages[i].from # AgentFid
             /\ IsNew(job.messages[i], job.lastFetchTime)) => i \in job.selected]_vars

\* ---- C37 ------------------------------------------------------------------
\* C37: every chunk the one-to-one variant has sent is addressed to a
\* participant of the conversation other than the agent; with no such
\* participant nothing is sent.
C37_RepliesAddressedToParticipant ==
  ~reply.isGroup =>
    \A i \in 1..Len(reply.delivered) :
      reply.delivered[i].to \in
        {reply.participants[j] : j \in 1..Len(reply.participants)} \ {AgentFid}

\* ---- C38 ------------------------------------------------------------------
\* C38: an attempt to mark a conversation read settles once, its socket is
\* closed (or closing) when it settles, and no frame is sent on the socket
\* after it has settled, whatever the order of the open, error and close
\* events and of the three timers.
C38_AttemptSettlesOnceAndCloses ==
  /\ [][attempt.settled # "no" => attempt'.settled = attempt.settled]_vars
  /\ [](/\ attempt.settled # "no" =>
             attempt.sockAtSettle \in {"none", "CLOSING", "CLOSED"}
        /\ \A i \in 1..Len(attempt.frames) : ~attempt.frames[i].late)

====
